---- MODULE Spec2Model ----
(***************************************************************************)
(* Model of the MERN blog server: the access-control guards               *)
(* (server/src/middleware/auth.js), the post controller and the Post      *)
(* schema with its pre-save hook, and the admin user routes.              *)
(*                                                                         *)
(* The document store is modelled as functions from ids to documents.     *)
(* A request is one action that runs the whole middleware chain of its    *)
(* route; toggleLike is split at its `await Post.findById` so that two    *)
(* requests can interleave between the read and the save.                 *)
(* Post fields tags, excerpt and featuredImage are plain copied fields    *)
(* with no effect on any other field and are left out of the documents.   *)
(* The listing orders posts with equal sort keys in any order, as the     *)
(* store does.  `client` is the state of the browser's AuthContext; the   *)
(* server actions leave it alone and the client actions leave the server  *)
(* alone.                                                                 *)
(***************************************************************************)
EXTENDS Integers, Sequences, FiniteSets, TLC

VARIABLES users, userSeq, tokens, now, categories, posts, postSeq, pending, response,
          client

vars == <<users, userSeq, tokens, now, categories, posts, postSeq, pending, response,
         client>>

(***************************************************************************)
(* Bounds of the model                                                     *)
(***************************************************************************)
MaxClock == 2
MaxPosts == 1
MaxPending == 2
MaxVersion == 2
MaxViews == 1
MaxComments == 1
MaxTokens == 2
MaxUsers == 4

(***************************************************************************)
(* Program constants                                                       *)
(***************************************************************************)
\* JWT_EXPIRES_IN (30d) on the scale of the model's clock: a token issued at
\* time 0 expires at the last tick
TokenTTL == MaxClock
\* length of a MongoDB ObjectId in hex characters
ObjectIdLen == 24
MinTitleLen == 5
MaxTitleLen == 100

NoUser == 0
NoDate == -1
NoCategory == 0

Roles == {"user", "admin"}
Statuses == {"draft", "published", "archived"}

\* the seeded accounts: one admin (an admin cannot be made through register)
\* and two ordinary users
AdminId == 1
AliceId == 2
BobId == 3
SeedIds == {AdminId, AliceId, BobId}
\* every _id the users collection can hand out
UserIds == 1..MaxUsers
PostIds == 1..MaxPosts

(***************************************************************************)
(* Tokens (utils/auth): a token is a payload and the payload its signature *)
(* was computed over; a tampered token keeps the old signature.           *)
(***************************************************************************)
Payload(id, username, email, role, exp) ==
    [id |-> id, username |-> username, email |-> email, role |-> role, exp |-> exp]

\* a string that is not a JWT: no signature ever matches
Malformed ==
    [payload |-> Payload(NoUser, <<>>, <<>>, "none", 0),
     sig |-> Payload(NoUser, <<>>, <<>>, "garbage", 0)]

\* generateToken(user): signs the user's _id, username, email and role
generateToken(id, user, t) ==
    LET p == Payload(id, user.username, user.email, user.role, t + TokenTTL)
    IN  [payload |-> p, sig |-> p]

\* what a client without the secret can build from a token it holds
Tampered(t) == [t EXCEPT !.payload.exp = MaxClock + TokenTTL + 1]

\* a token signed with another secret
WronglySigned(t) == [t EXCEPT !.sig = Malformed.sig]

verifyToken(t, clock) ==
    IF t.sig # t.payload THEN [ok |-> FALSE, error |-> "Invalid token", claims |-> t.payload]
    ELSE IF clock >= t.payload.exp
         THEN [ok |-> FALSE, error |-> "TokenExpiredError", claims |-> t.payload]
         ELSE [ok |-> TRUE, error |-> "none", claims |-> t.payload]

NoHeader == [scheme |-> "none", token |-> Malformed]

Header(scheme, t) == [scheme |-> scheme, token |-> t]

\* null for a missing header or one that does not start with "Bearer "
extractTokenFromHeader(h) ==
    IF h.scheme = "Bearer" THEN [found |-> TRUE, token |-> h.token]
    ELSE [found |-> FALSE, token |-> Malformed]

\* every header a client can send in the current state
Headers ==
    {NoHeader, Header("Bearer", Malformed)}
    \cup { Header("Bearer", t) : t \in tokens }
    \cup { Header("Bearer", Tampered(t)) : t \in tokens }
    \cup {Header("Basic", Malformed)}

\* how the client built the header of its request
Kind(h) ==
    IF h = NoHeader THEN "none"
    ELSE IF h.scheme # "Bearer" THEN "basic"
    ELSE IF h.token = Malformed THEN "malformed"
    ELSE IF h.token \in tokens THEN "issued"
    ELSE "tampered"

\* the headers of well-behaved clients: none, or a token as it was issued
PlainHeaders == {NoHeader} \cup { Header("Bearer", t) : t \in tokens }

(***************************************************************************)
(* Access control guards (server/src/middleware/auth.js)                   *)
(***************************************************************************)
Denied(status, message) ==
    [next |-> FALSE, status |-> status, message |-> message, user |-> NoUser]

\* faulty variant of authenticate: the isActive test is left out
authenticateNoActiveCheck(h) ==
    LET ext == extractTokenFromHeader(h)
        decoded == verifyToken(ext.token, now)
    IN  IF ~ext.found THEN Denied(401, "Access token is required")
        ELSE IF ~decoded.ok
             THEN IF decoded.error = "Invalid token"
                  THEN Denied(401, "Invalid access token")
                  ELSE IF decoded.error = "TokenExpiredError"
                       THEN Denied(401, "Access token has expired")
                       ELSE Denied(500, "Internal server error during authentication")
             ELSE IF decoded.claims.id \notin DOMAIN users
                  THEN Denied(401, "User not found")
                  ELSE [next |-> TRUE, status |-> 0, message |-> "",
                        user |-> decoded.claims.id]

\* faulty variant of authenticate: every verification error is reported as an
\* invalid token
authenticateExpiredAsInvalid(h) ==
    LET ext == extractTokenFromHeader(h)
        decoded == verifyToken(ext.token, now)
    IN  IF ~ext.found THEN Denied(401, "Access token is required")
        ELSE IF ~decoded.ok THEN Denied(401, "Invalid access token")
        ELSE IF decoded.claims.id \notin DOMAIN users
             THEN Denied(401, "User not found")
             ELSE IF ~users[decoded.claims.id].isActive
                  THEN Denied(401, "User account is deactivated")
                  ELSE [next |-> TRUE, status |-> 0, message |-> "",
                        user |-> decoded.claims.id]

authenticate(h) ==
    LET ext == extractTokenFromHeader(h)
        decoded == verifyToken(ext.token, now)
    IN  IF ~ext.found THEN Denied(401, "Access token is required")
        ELSE IF ~decoded.ok
             THEN IF decoded.error = "Invalid token"
                  THEN Denied(401, "Invalid access token")
                  ELSE IF decoded.error = "TokenExpiredError"
                       THEN Denied(401, "Access token has expired")
                       ELSE Denied(500, "Internal server error during authentication")
             ELSE IF decoded.claims.id \notin DOMAIN users
                  THEN Denied(401, "User not found")
                  ELSE IF ~users[decoded.claims.id].isActive
                       THEN Denied(401, "User account is deactivated")
                       ELSE [next |-> TRUE, status |-> 0, message |-> "",
                             user |-> decoded.claims.id]

\* faulty variant of optionalAuth: a verification failure is answered 401
optionalAuthLeaky(h) ==
    LET ext == extractTokenFromHeader(h)
        decoded == verifyToken(ext.token, now)
    IN  IF ~ext.found THEN [calls |-> 1, sent |-> FALSE, user |-> NoUser]
        ELSE IF ~decoded.ok THEN [calls |-> 0, sent |-> TRUE, user |-> NoUser]
        ELSE IF decoded.claims.id \in DOMAIN users /\ users[decoded.claims.id].isActive
             THEN [calls |-> 1, sent |-> FALSE, user |-> decoded.claims.id]
             ELSE [calls |-> 1, sent |-> FALSE, user |-> NoUser]

\* faulty variant of optionalAuth: `user.isActive` is not looked at
optionalAuthNoActiveCheck(h) ==
    LET ext == extractTokenFromHeader(h)
        decoded == verifyToken(ext.token, now)
    IN  IF ext.found /\ decoded.ok /\ decoded.claims.id \in DOMAIN users
        THEN [calls |-> 1, sent |-> FALSE, user |-> decoded.claims.id]
        ELSE [calls |-> 1, sent |-> FALSE, user |-> NoUser]

\* result of optionalAuth: how often next() was called, whether a response
\* was sent, and the identity attached to the request
optionalAuth(h) ==
    LET ext == extractTokenFromHeader(h)
        decoded == verifyToken(ext.token, now)
        \* the try block: throws when verifyToken throws
        threw == ext.found /\ ~decoded.ok
        attached == IF ext.found /\ decoded.ok
                       /\ decoded.claims.id \in DOMAIN users
                       /\ users[decoded.claims.id].isActive
                    THEN decoded.claims.id ELSE NoUser
    IN  IF threw
        THEN \* catch: next() and nothing else
             [calls |-> 1, sent |-> FALSE, user |-> NoUser]
        ELSE [calls |-> 1, sent |-> FALSE, user |-> attached]

\* faulty variant of authorize: the `roles.length` test is left out
authorizeNoLengthCheck(roles, reqUser) ==
    IF reqUser = NoUser THEN [next |-> FALSE, status |-> 401]
    ELSE IF users[reqUser].role \notin roles THEN [next |-> FALSE, status |-> 403]
    ELSE [next |-> TRUE, status |-> 0]

authorize(roles, reqUser) ==
    IF reqUser = NoUser THEN [next |-> FALSE, status |-> 401]
    ELSE IF Cardinality(roles) # 0 /\ users[reqUser].role \notin roles
         THEN [next |-> FALSE, status |-> 403]
         ELSE [next |-> TRUE, status |-> 0]

(***************************************************************************)
(* Strings are sequences of one-character strings                          *)
(***************************************************************************)
UpperCase == <<"A","B","C","D","E","F","G","H","I","J","K","L","M",
               "N","O","P","Q","R","S","T","U","V","W","X","Y","Z">>
LowerCase == <<"a","b","c","d","e","f","g","h","i","j","k","l","m",
               "n","o","p","q","r","s","t","u","v","w","x","y","z">>
Digits == <<"0","1","2","3","4","5","6","7","8","9">>

Range(f) == { f[i] : i \in DOMAIN f }

UpperChars == Range(UpperCase)
SlugChars == Range(LowerCase) \cup Range(Digits)
HexChars == Range(Digits) \cup {"a","b","c","d","e","f","A","B","C","D","E","F"}

Str(n, c) == [i \in 1..n |-> c]

toLowerChar(c) ==
    IF c \in UpperChars
    THEN LowerCase[CHOOSE i \in 1..26 : UpperCase[i] = c]
    ELSE c

toLowerCase(s) == [i \in 1..Len(s) |-> toLowerChar(s[i])]

IsSlugChar(c) == c \in SlugChars

IsHexChar(c) == c \in HexChars

\* String.prototype.trim, with the space as the only white space
RECURSIVE trimLeft(_)
trimLeft(s) == IF Len(s) > 0 /\ s[1] = " " THEN trimLeft(Tail(s)) ELSE s

RECURSIVE trimRight(_)
trimRight(s) ==
    IF Len(s) > 0 /\ s[Len(s)] = " " THEN trimRight(SubSeq(s, 1, Len(s) - 1)) ELSE s

trim(s) == trimRight(trimLeft(s))

\* s.replace(/[^a-z0-9]+/g, '-'): every maximal run of other characters
\* becomes one hyphen
RECURSIVE replaceRuns(_, _)
replaceRuns(s, inRun) ==
    IF Len(s) = 0 THEN <<>>
    ELSE IF IsSlugChar(s[1]) THEN <<s[1]>> \o replaceRuns(Tail(s), FALSE)
    ELSE IF inRun THEN replaceRuns(Tail(s), TRUE)
    ELSE <<"-">> \o replaceRuns(Tail(s), TRUE)

\* s.replace(/(^-|-$)/g, ''): one hyphen off the front, one off the end
stripEdgeHyphens(s) ==
    LET a == IF Len(s) > 0 /\ s[1] = "-" THEN Tail(s) ELSE s
    IN  IF Len(a) > 0 /\ a[Len(a)] = "-" THEN SubSeq(a, 1, Len(a) - 1) ELSE a

slugify(title) == stripEdgeHyphens(replaceRuns(toLowerCase(title), FALSE))

\* case-insensitive substring test, the $regex/$options:'i' match of a
\* literal search term
Contains(s, sub) ==
    \E i \in 1..(Len(s) - Len(sub) + 1) :
        toLowerCase(SubSeq(s, i, i + Len(sub) - 1)) = toLowerCase(sub)

\* ObjectIds: 24 hex characters; the first tells the collection apart
Oid(kind, n) == [i \in 1..ObjectIdLen |-> IF i = 1 THEN kind
                                          ELSE IF i = ObjectIdLen THEN Digits[n + 1]
                                          ELSE "0"]
PostOid(p) == Oid("a", p)
UserOid(u) == Oid("b", u)
CategoryOid(c) == Oid("c", c)

isValidObjectId(id) == Len(id) = ObjectIdLen /\ \A i \in 1..Len(id) : IsHexChar(id[i])

\* optional request fields
Some(v) == [has |-> TRUE, val |-> v]
NoStr == [has |-> FALSE, val |-> <<>>]
\* JavaScript truthiness of an optional string
Truthy(o) == o.has /\ Len(o.val) > 0

(***************************************************************************)
(* Post schema (models/Post.js)                                            *)
(***************************************************************************)
MinContentLen == 10
MaxContentLen == 5000
MaxCommentLen == 500

\* a new Post document; views, likes, comments take the schema defaults,
\* the version key __v starts at 0
NewPost(author, title, content, category, status) ==
    [author |-> author, title |-> trim(title), content |-> content,
     category |-> category, slug |-> <<>>, status |-> status,
     publishedAt |-> NoDate, views |-> 0, likes |-> <<>>, comments |-> <<>>,
     v |-> 0, createdAt |-> now]

\* schema validators of the paths in `modified`
validPost(doc, modified) ==
    /\ "title" \in modified =>
          Len(doc.title) >= MinTitleLen /\ Len(doc.title) <= MaxTitleLen
    /\ "content" \in modified =>
          Len(doc.content) >= MinContentLen /\ Len(doc.content) <= MaxContentLen
    /\ "status" \in modified => doc.status \in Statuses

\* faulty variant of the hook: publishedAt is stamped on new documents only
preSaveStampNewOnly(doc, modified) ==
    LET withSlug == IF "title" \in modified /\ Len(doc.slug) = 0
                    THEN [doc EXCEPT !.slug = slugify(doc.title)]
                    ELSE doc
    IN  IF "status" \in modified /\ "author" \in modified
           /\ withSlug.status = "published" /\ withSlug.publishedAt = NoDate
        THEN [withSlug EXCEPT !.publishedAt = now]
        ELSE withSlug

\* faulty variant of the hook: the `!this.publishedAt` test is left out
preSaveAlwaysStamp(doc, modified) ==
    LET withSlug == IF "title" \in modified /\ Len(doc.slug) = 0
                    THEN [doc EXCEPT !.slug = slugify(doc.title)]
                    ELSE doc
    IN  IF "status" \in modified /\ withSlug.status = "published"
        THEN [withSlug EXCEPT !.publishedAt = now]
        ELSE withSlug

\* postSchema.pre('save'): `!this.slug` holds for an unset and for an empty
\* slug; a Date is never falsy
preSave(doc, modified) ==
    LET withSlug == IF "title" \in modified /\ Len(doc.slug) = 0
                    THEN [doc EXCEPT !.slug = slugify(doc.title)]
                    ELSE doc
    IN  IF "status" \in modified /\ withSlug.status = "published"
           /\ withSlug.publishedAt = NoDate
        THEN [withSlug EXCEPT !.publishedAt = now]
        ELSE withSlug

\* faulty variant of slugTaken: the slug path has no unique index
slugNeverTaken(store, id, slug) == FALSE

\* the unique index on slug: some other stored post holds the slug
slugTaken(store, id, slug) == \E q \in DOMAIN store : q # id /\ store[q].slug = slug

likeCount(doc) == Len(doc.likes)

commentCount(doc) == Len(doc.comments)

isLikedByUser(doc, u) == \E i \in 1..Len(doc.likes) : doc.likes[i].user = u

\* Array.prototype.findIndex over likes, 0 for the -1 of JavaScript
likeIndexOf(doc, u) ==
    IF isLikedByUser(doc, u)
    THEN CHOOSE i \in 1..Len(doc.likes) :
            /\ doc.likes[i].user = u
            /\ \A j \in 1..(i - 1) : doc.likes[j].user # u
    ELSE 0

\* Array.prototype.splice(i, 1)
RemoveAt(s, i) == SubSeq(s, 1, i - 1) \o SubSeq(s, i + 1, Len(s))

(***************************************************************************)
(* Responses                                                               *)
(***************************************************************************)
Resp(op, status, user, post) ==
    [op |-> op, status |-> status, user |-> user, post |-> post,
     items |-> <<>>, total |-> 0, totalPages |-> 0, hasNextPage |-> FALSE,
     hasPrevPage |-> FALSE, likeCount |-> 0, isLiked |-> FALSE,
     views |-> 0, calls |-> 0, ran |-> FALSE, message |-> "", hdr |-> NoHeader,
     roles |-> {}, target |-> <<>>,
     cred |-> [username |-> <<>>, email |-> <<>>, password |-> <<>>,
               role |-> [has |-> FALSE, val |-> "user"]],
     token |-> [has |-> FALSE, val |-> Malformed],
     userJson |-> {},
     comment |-> [user |-> NoUser, content |-> <<>>, createdAt |-> NoDate],
     body |-> [title |-> NoStr, content |-> NoStr, category |-> NoStr,
               status |-> [has |-> FALSE, val |-> ""], author |-> NoStr],
     query |-> [page |-> 1, limit |-> 10, status |-> [has |-> FALSE, val |-> ""],
                category |-> NoStr, author |-> NoStr, search |-> NoStr,
                sortBy |-> "createdAt", sortOrder |-> "desc"]]

Result(resp, store) == [resp |-> resp, posts |-> store]

(***************************************************************************)
(* Route validation rules (routes/posts.js) as run by `validate`           *)
(***************************************************************************)
NoStatus == [has |-> FALSE, val |-> ""]

lengthBetween(o, lo, hi) == o.has /\ Len(o.val) >= lo /\ Len(o.val) <= hi

createPostValidation(body) ==
    /\ lengthBetween(body.title, MinTitleLen, MaxTitleLen)
    /\ lengthBetween(body.content, MinContentLen, MaxContentLen)
    /\ body.category.has => isValidObjectId(body.category.val)
    /\ body.status.has => body.status.val \in Statuses

updatePostValidation(body) ==
    /\ body.title.has => lengthBetween(body.title, MinTitleLen, MaxTitleLen)
    /\ body.content.has => lengthBetween(body.content, MinContentLen, MaxContentLen)
    /\ body.category.has => isValidObjectId(body.category.val)
    /\ body.status.has => body.status.val \in Statuses

addCommentValidation(content) == lengthBetween(content, 1, MaxCommentLen)

(***************************************************************************)
(* Post controller (controllers/postController.js)                         *)
(***************************************************************************)
categoryExists(oid) == \E c \in categories : CategoryOid(c) = oid

categoryOf(oid) == CHOOSE c \in categories : CategoryOid(c) = oid

\* Post.findOne(query) of getPost: by _id when the identifier looks like an
\* ObjectId, by slug otherwise; only published posts unless an admin asks
getPostMatches(reqUser, identifier) ==
    { p \in DOMAIN posts :
        /\ IF isValidObjectId(identifier) THEN PostOid(p) = identifier
           ELSE posts[p].slug = identifier
        /\ (reqUser = NoUser \/ users[reqUser].role # "admin")
              => posts[p].status = "published" }

getPost(reqUser, identifier) ==
    LET found == getPostMatches(reqUser, identifier)
    IN  IF found = {}
        THEN Result(Resp("getPost", 404, reqUser, 0), posts)
        ELSE LET p == CHOOSE q \in found : TRUE
                 saved == preSave([posts[p] EXCEPT !.views = @ + 1], {"views"})
             IN  Result([Resp("getPost", 200, reqUser, p) EXCEPT !.views = saved.views],
                        [posts EXCEPT ![p] = saved])

\* getPost after `await Post.findOne(query)`: `loaded` is the document as it
\* was read, `store` the collection when post.save() is applied; the save
\* writes the one modified path, views, as the value computed from the read
getPostSave(store, p, loaded, u) ==
    IF p \notin DOMAIN store
    THEN Result(Resp("getPost", 500, u, p), store)
    ELSE Result([Resp("getPost", 200, u, p) EXCEPT !.views = loaded.views + 1],
                [store EXCEPT ![p].views = loaded.views + 1])

\* faulty variant of authorOf: an author sent in the body is taken over
authorFromBody(reqUser, body) ==
    IF Truthy(body.author) /\ \E u \in DOMAIN users : UserOid(u) = body.author.val
    THEN CHOOSE u \in DOMAIN users : UserOid(u) = body.author.val
    ELSE reqUser

\* `author: req.user._id`: the body is destructured without its author
authorOf(reqUser, body) == reqUser

createPost(reqUser, body) ==
    LET fresh == postSeq + 1
        made == NewPost(authorOf(reqUser, body), body.title.val, body.content.val,
                        IF Truthy(body.category) THEN categoryOf(body.category.val)
                        ELSE NoCategory,
                        IF body.status.has /\ body.status.val # ""
                        THEN body.status.val ELSE "draft")
        modified == {"title", "content", "author", "category", "status"}
        saved == preSave(made, modified)
    IN  IF ~Truthy(body.title) \/ ~Truthy(body.content)
        THEN Result(Resp("createPost", 400, reqUser, 0), posts)
        ELSE IF Truthy(body.category) /\ ~isValidObjectId(body.category.val)
        THEN Result(Resp("createPost", 400, reqUser, 0), posts)
        ELSE IF Truthy(body.category) /\ ~categoryExists(body.category.val)
        THEN Result(Resp("createPost", 400, reqUser, 0), posts)
        ELSE IF ~validPost(made, modified)
        THEN Result(Resp("createPost", 400, reqUser, 0), posts)
        ELSE IF slugTaken(posts, fresh, saved.slug)
        THEN Result(Resp("createPost", 400, reqUser, 0), posts)
        ELSE Result(Resp("createPost", 201, reqUser, fresh),
                    [q \in DOMAIN posts \cup {fresh} |->
                        IF q = fresh THEN saved ELSE posts[q]])

postOfOid(oid) == CHOOSE p \in DOMAIN posts : PostOid(p) = oid

\* faulty variant of the ownership check: everyone may change a post
mayChangeAnyone(reqUser, doc) == TRUE

\* post.author.toString() === req.user._id.toString() || req.user.role === 'admin'
mayChange(reqUser, doc) == doc.author = reqUser \/ users[reqUser].role = "admin"

\* the assignments of updatePost and the paths they mark modified
\* faulty variant of updatedDoc: the status only moves forward, from draft to
\* published to archived
updatedDocOneWay(doc, body) ==
    [doc EXCEPT
       !.title = IF Truthy(body.title) THEN trim(body.title.val) ELSE @,
       !.content = IF Truthy(body.content) THEN body.content.val ELSE @,
       !.category = IF body.category.has
                    THEN IF Truthy(body.category) THEN categoryOf(body.category.val)
                         ELSE NoCategory
                    ELSE @,
       !.status = IF body.status.has /\ body.status.val # ""
                     /\ <<@, body.status.val>> \in
                           {<<"draft", "published">>, <<"draft", "archived">>,
                            <<"published", "archived">>}
                  THEN body.status.val ELSE @]

updatedDoc(doc, body) ==
    [doc EXCEPT
       !.title = IF Truthy(body.title) THEN trim(body.title.val) ELSE @,
       !.content = IF Truthy(body.content) THEN body.content.val ELSE @,
       !.category = IF body.category.has
                    THEN IF Truthy(body.category) THEN categoryOf(body.category.val)
                         ELSE NoCategory
                    ELSE @,
       !.status = IF body.status.has /\ body.status.val # "" THEN body.status.val ELSE @]

modifiedPaths(old, new) ==
    { f \in {"title", "content", "category", "status"} : old[f] # new[f] }

updatePost(reqUser, id, body) ==
    IF ~isValidObjectId(id)
    THEN Result(Resp("updatePost", 400, reqUser, 0), posts)
    ELSE IF \A p \in DOMAIN posts : PostOid(p) # id
    THEN Result(Resp("updatePost", 404, reqUser, 0), posts)
    ELSE LET p == postOfOid(id)
             doc == posts[p]
             changesCategory ==
                 Truthy(body.category)
                 /\ (doc.category = NoCategory
                     \/ CategoryOid(doc.category) # body.category.val)
         IN  IF ~mayChange(reqUser, doc)
             THEN Result(Resp("updatePost", 403, reqUser, p), posts)
             ELSE IF changesCategory /\ ~isValidObjectId(body.category.val)
             THEN Result(Resp("updatePost", 400, reqUser, p), posts)
             ELSE IF changesCategory /\ ~categoryExists(body.category.val)
             THEN Result(Resp("updatePost", 400, reqUser, p), posts)
             ELSE LET new == updatedDoc(doc, body)
                      modified == modifiedPaths(doc, new)
                      saved == preSave(new, modified)
                  IN  IF ~validPost(new, modified)
                      THEN Result(Resp("updatePost", 400, reqUser, p), posts)
                      ELSE IF slugTaken(posts, p, saved.slug)
                      THEN Result(Resp("updatePost", 400, reqUser, p), posts)
                      ELSE Result(Resp("updatePost", 200, reqUser, p),
                                  [posts EXCEPT ![p] = saved])

\* faulty variant of deletePost: the post is reported deleted and kept
deletePostSoft(reqUser, id) ==
    IF ~isValidObjectId(id)
    THEN Result(Resp("deletePost", 400, reqUser, 0), posts)
    ELSE IF \A p \in DOMAIN posts : PostOid(p) # id
    THEN Result(Resp("deletePost", 404, reqUser, 0), posts)
    ELSE LET p == postOfOid(id)
         IN  IF ~mayChange(reqUser, posts[p])
             THEN Result(Resp("deletePost", 403, reqUser, p), posts)
             ELSE Result(Resp("deletePost", 200, reqUser, p), posts)

deletePost(reqUser, id) ==
    IF ~isValidObjectId(id)
    THEN Result(Resp("deletePost", 400, reqUser, 0), posts)
    ELSE IF \A p \in DOMAIN posts : PostOid(p) # id
    THEN Result(Resp("deletePost", 404, reqUser, 0), posts)
    ELSE LET p == postOfOid(id)
         IN  IF ~mayChange(reqUser, posts[p])
             THEN Result(Resp("deletePost", 403, reqUser, p), posts)
             ELSE Result(Resp("deletePost", 200, reqUser, p),
                         [q \in DOMAIN posts \ {p} |-> posts[q]])

\* toggleLike up to `await Post.findById(id)`: 0 when the post was found
\* faulty variant of toggleLikeFind: posts that are not published are not found
toggleLikeFindPublished(id) ==
    IF ~isValidObjectId(id) THEN 400
    ELSE IF \A p \in DOMAIN posts : PostOid(p) # id \/ posts[p].status # "published"
    THEN 404
    ELSE 0

toggleLikeFind(id) ==
    IF ~isValidObjectId(id) THEN 400
    ELSE IF \A p \in DOMAIN posts : PostOid(p) # id THEN 404
    ELSE 0

\* faulty variant of toggleLikeSave: the toggle is applied to the stored
\* document, not to the document that was read
toggleLikeSaveOnStored(store, p, loaded, u) ==
    IF p \notin DOMAIN store THEN Result(Resp("toggleLike", 500, u, p), store)
    ELSE LET likeIndex == likeIndexOf(store[p], u)
             local == IF likeIndex > 0 THEN RemoveAt(store[p].likes, likeIndex)
                      ELSE Append(store[p].likes, [user |-> u, createdAt |-> now])
         IN  Result([Resp("toggleLike", 200, u, p) EXCEPT
                        !.likeCount = Len(local), !.isLiked = likeIndex = 0],
                    [store EXCEPT ![p].likes = local, ![p].v = @ + 1])

\* toggleLike after `await Post.findById(id)`: `loaded` is the document as it
\* was read, `store` the collection when post.save() is applied.  A push is
\* saved as $push (+ $inc __v); a splice is saved as $set of the whole array
\* under the condition that __v is still the one that was read.
toggleLikeSave(store, p, loaded, u) ==
    LET likeIndex == likeIndexOf(loaded, u)
    IN  IF likeIndex > 0
        THEN LET local == RemoveAt(loaded.likes, likeIndex)
             IN  IF p \notin DOMAIN store \/ store[p].v # loaded.v
                 THEN Result(Resp("toggleLike", 500, u, p), store)
                 ELSE Result([Resp("toggleLike", 200, u, p) EXCEPT
                                 !.likeCount = Len(local),
                                 !.isLiked = likeIndex = 0],
                             [store EXCEPT ![p].likes = local, ![p].v = @ + 1])
        ELSE LET entry == [user |-> u, createdAt |-> now]
                 local == Append(loaded.likes, entry)
             IN  IF p \notin DOMAIN store
                 THEN Result(Resp("toggleLike", 500, u, p), store)
                 ELSE Result([Resp("toggleLike", 200, u, p) EXCEPT
                                 !.likeCount = Len(local),
                                 !.isLiked = likeIndex = 0],
                             [store EXCEPT ![p].likes = Append(@, entry),
                                           ![p].v = @ + 1])

\* faulty variant of addComment: the content is stored as it was sent
addCommentNoTrim(reqUser, id, content) ==
    IF ~Truthy(content) \/ Len(trim(content.val)) = 0
    THEN Result(Resp("addComment", 400, reqUser, 0), posts)
    ELSE IF ~isValidObjectId(id)
    THEN Result(Resp("addComment", 400, reqUser, 0), posts)
    ELSE IF \A p \in DOMAIN posts : PostOid(p) # id
    THEN Result(Resp("addComment", 404, reqUser, 0), posts)
    ELSE LET p == postOfOid(id)
             comment == [user |-> reqUser, content |-> content.val, createdAt |-> now]
         IN  IF Len(comment.content) > MaxCommentLen
             THEN Result(Resp("addComment", 400, reqUser, p), posts)
             ELSE Result([Resp("addComment", 201, reqUser, p) EXCEPT !.comment = comment],
                         [posts EXCEPT ![p].comments = Append(@, comment),
                                       ![p].v = @ + 1])

addComment(reqUser, id, content) ==
    IF ~Truthy(content) \/ Len(trim(content.val)) = 0
    THEN Result(Resp("addComment", 400, reqUser, 0), posts)
    ELSE IF ~isValidObjectId(id)
    THEN Result(Resp("addComment", 400, reqUser, 0), posts)
    ELSE IF \A p \in DOMAIN posts : PostOid(p) # id
    THEN Result(Resp("addComment", 404, reqUser, 0), posts)
    ELSE LET p == postOfOid(id)
             comment == [user |-> reqUser, content |-> trim(content.val),
                         createdAt |-> now]
             pushed == Append(posts[p].comments, comment)
         IN  IF Len(comment.content) > MaxCommentLen
             THEN Result(Resp("addComment", 400, reqUser, p), posts)
             ELSE Result([Resp("addComment", 201, reqUser, p) EXCEPT
                             !.comment = pushed[Len(pushed)]],
                         [posts EXCEPT ![p].comments = pushed, ![p].v = @ + 1])

(***************************************************************************)
(* Listing (getPosts)                                                      *)
(***************************************************************************)

getPostsValidation(q) ==
    /\ q.page >= 1
    /\ q.limit >= 1 /\ q.limit <= 100
    /\ q.status.has => q.status.val \in Statuses
    /\ q.category.has => isValidObjectId(q.category.val)
    /\ q.author.has => isValidObjectId(q.author.val)
    /\ q.sortBy \in {"createdAt", "updatedAt", "title", "views", "publishedAt"}
    /\ q.sortOrder \in {"asc", "desc"}

\* faulty variant of statusFilter: no default for requesters who are not admins
statusFilterNoDefault(reqUser, q) ==
    IF q.status.has /\ q.status.val # "" THEN {q.status.val} ELSE Statuses

\* the status condition of the query, as a set of admitted statuses
statusFilter(reqUser, q) ==
    IF q.status.has /\ q.status.val # "" THEN {q.status.val}
    ELSE IF reqUser = NoUser \/ users[reqUser].role # "admin" THEN {"published"}
    ELSE Statuses

matchesQuery(reqUser, q, p) ==
    /\ posts[p].status \in statusFilter(reqUser, q)
    /\ (Truthy(q.category) /\ isValidObjectId(q.category.val))
          => (posts[p].category # NoCategory
              /\ CategoryOid(posts[p].category) = q.category.val)
    /\ (Truthy(q.author) /\ isValidObjectId(q.author.val))
          => UserOid(posts[p].author) = q.author.val
    /\ Truthy(q.search)
          => (Contains(posts[p].title, q.search.val)
              \/ Contains(posts[p].content, q.search.val))

sortKey(p, field) ==
    IF field = "views" THEN posts[p].views
    ELSE IF field = "publishedAt" THEN posts[p].publishedAt
    ELSE posts[p].createdAt

\* the orders in which the store may hand out documents whose sort keys are
\* equal: the sort has no tie-break field, so each query may meet another
TieOrders ==
    { f \in [DOMAIN posts -> 1..Cardinality(DOMAIN posts)] :
        \A p, r \in DOMAIN posts : p # r => f[p] # f[r] }

\* p comes before r in the sorted result of one query
comesBefore(p, r, q, tie) ==
    LET kp == sortKey(p, q.sortBy)
        kr == sortKey(r, q.sortBy)
    IN  IF kp = kr THEN tie[p] < tie[r]
        ELSE IF q.sortOrder = "desc" THEN kp > kr ELSE kp < kr

RECURSIVE sorted(_, _, _)
sorted(S, q, tie) ==
    IF S = {} THEN <<>>
    ELSE LET first == CHOOSE p \in S : \A r \in S \ {p} : comesBefore(p, r, q, tie)
         IN  <<first>> \o sorted(S \ {first}, q, tie)

\* Math.ceil(total / limit)
ceilDiv(total, limit) == (total + limit - 1) \div limit

getPosts(reqUser, q, tie) ==
    LET matched == { p \in DOMAIN posts : matchesQuery(reqUser, q, p) }
        all == sorted(matched, q, tie)
        skip == (q.page - 1) * q.limit
        page == SubSeq(all, skip + 1,
                       IF skip + q.limit < Len(all) THEN skip + q.limit ELSE Len(all))
        total == Cardinality(matched)
        totalPages == ceilDiv(total, q.limit)
    IN  Result([Resp("getPosts", 200, reqUser, 0) EXCEPT
                   !.items = page, !.total = total,
                   !.totalPages = totalPages,
                   !.hasNextPage = q.page < totalPages,
                   !.hasPrevPage = q.page > 1],
               posts)

(***************************************************************************)
(* User store (models/User.js), auth controller and admin user routes      *)
(***************************************************************************)
WordChars == Range(LowerCase) \cup UpperChars \cup Range(Digits) \cup {"_"}

\* \w+([.-]?\w+)*: word characters, single dots or hyphens only between them
dotted(s) ==
    /\ Len(s) > 0
    /\ s[1] \in WordChars /\ s[Len(s)] \in WordChars
    /\ \A i \in 1..Len(s) : s[i] \in WordChars \cup {".", "-"}
    /\ \A i \in 1..(Len(s) - 1) : s[i] \in WordChars \/ s[i + 1] \in WordChars

\* utils/validation isValidEmail:
\* /^\w+([.-]?\w+)*@\w+([.-]?\w+)*(\.\w{2,3})+$/
isValidEmail(e) ==
    \E at \in 1..Len(e) :
        LET local == SubSeq(e, 1, at - 1)
            domain == SubSeq(e, at + 1, Len(e))
        IN  /\ e[at] = "@"
            /\ dotted(local)
            /\ dotted(domain)
            /\ \E k \in {2, 3} :
                  /\ Len(domain) >= k + 2
                  /\ domain[Len(domain) - k] = "."
                  /\ \A i \in (Len(domain) - k + 1)..Len(domain) : domain[i] \in WordChars

MinPasswordLen == 6
MaxPasswordLen == 128
MinUsernameLen == 3
MaxUsernameLen == 30

\* utils/validation validatePassword(...).isValid
validatePassword(pw) ==
    /\ Len(pw) >= MinPasswordLen
    /\ Len(pw) <= MaxPasswordLen
    /\ \E i \in 1..Len(pw) : pw[i] \in Range(LowerCase)
    /\ \E i \in 1..Len(pw) : pw[i] \in UpperChars
    /\ \E i \in 1..Len(pw) : pw[i] \in Range(Digits)

\* utils/validation validateUsername(...).isValid
validateUsername(name) ==
    /\ Len(name) >= MinUsernameLen
    /\ Len(name) <= MaxUsernameLen
    /\ \A i \in 1..Len(name) : name[i] \in WordChars

\* express-validator normalizeEmail() on an address of an ordinary domain:
\* the whole address in lower case
normalizeEmail(e) == toLowerCase(e)

\* bcrypt: a salted one-way hash in the "$2b$..." format, never the plaintext
hashPassword(plain) == <<"$", "2", "b", "$">> \o plain

comparePassword(plain, hash) == hash = hashPassword(plain)

\* new User({username, email, password, ...}) once saved: role and isActive
\* take the schema defaults, the password is stored hashed
NewUser(name, email, password, role) ==
    [username |-> name, email |-> email, password |-> hashPassword(password),
     role |-> role, isActive |-> TRUE, firstName |-> <<>>]

\* the paths of a user document
UserFields == {"_id", "username", "email", "password", "role", "isActive", "firstName"}

\* query.select('-path'): the document is loaded without the path
deselect(fields, path) == fields \ {path}

\* the schema's toJSON transform: the serialized user has no password
toJSON(fields) == fields \ {"password"}

Email(name) == name \o <<"@", "x", ".", "y", "z">>
Password(c) == <<"P", "a", "s", "s", "1", c>>

AdminName == <<"a", "d", "m">>
AliceName == <<"a", "l", "i">>
BobName == <<"b", "o", "b">>
AdminPass == Password("a")
AlicePass == Password("b")
BobPass == Password("c")

SeedUsers ==
    [u \in SeedIds |->
        IF u = AdminId THEN NewUser(AdminName, Email(AdminName), AdminPass, "admin")
        ELSE IF u = AliceId THEN NewUser(AliceName, Email(AliceName), AlicePass, "user")
        ELSE NewUser(BobName, Email(BobName), BobPass, "user")]

\* what the login handler hands back: a status, the user and the message
LoginResult(status, user, message) ==
    [status |-> status, user |-> user, message |-> message]

\* faulty variant of login: the isActive test is left out
loginNoActiveCheck(email, password) ==
    LET found == { u \in DOMAIN users : users[u].email = email }
    IN  IF Len(email) = 0 \/ Len(password) = 0
        THEN LoginResult(400, NoUser, "Email and password are required")
        ELSE IF found = {} THEN LoginResult(401, NoUser, "Invalid credentials")
        ELSE LET u == CHOOSE x \in found : TRUE
             IN  IF ~comparePassword(password, users[u].password)
                 THEN LoginResult(401, NoUser, "Invalid credentials")
                 ELSE LoginResult(200, u, "Login successful")

login(email, password) ==
    LET found == { u \in DOMAIN users : users[u].email = email }
    IN  IF Len(email) = 0 \/ Len(password) = 0
        THEN LoginResult(400, NoUser, "Email and password are required")
        ELSE IF found = {} THEN LoginResult(401, NoUser, "Invalid credentials")
        ELSE LET u == CHOOSE x \in found : TRUE
             IN  IF ~users[u].isActive
                 THEN LoginResult(401, NoUser, "Invalid credentials")
                 ELSE IF ~comparePassword(password, users[u].password)
                      THEN LoginResult(401, NoUser, "Invalid credentials")
                      ELSE LoginResult(200, u, "Login successful")

\* registerValidation as run by `validate`
registerValidation(b) ==
    /\ Len(b.username) >= MinUsernameLen /\ Len(b.username) <= MaxUsernameLen
    /\ \A i \in 1..Len(b.username) : b.username[i] \in WordChars
    /\ isValidEmail(b.email)
    /\ Len(b.password) >= MinPasswordLen

\* the stored users that hold the username or the email of the body
holders(store, b) ==
    { u \in DOMAIN store : store[u].email = b.email \/ store[u].username = b.username }

\* register up to and including User.findOne: status 0 when the handler goes
\* on to create the user
registerCheck(b) ==
    IF Len(b.username) = 0 \/ Len(b.email) = 0 \/ Len(b.password) = 0
    THEN [status |-> 400, message |-> "Username, email, and password are required"]
    ELSE IF ~isValidEmail(b.email)
    THEN [status |-> 400, message |-> "Please provide a valid email address"]
    ELSE IF ~validateUsername(b.username)
    THEN [status |-> 400, message |-> "Invalid username"]
    ELSE IF ~validatePassword(b.password)
    THEN [status |-> 400, message |-> "Password does not meet requirements"]
    ELSE IF holders(users, b) # {}
    THEN [status |-> 400,
          message |-> IF users[CHOOSE u \in holders(users, b) : TRUE].email = b.email
                      THEN "Email already exists"
                      ELSE "Username already exists"]
    ELSE [status |-> 0, message |-> ""]

\* faulty variant of errorHandler: the duplicate-key case is left out
errorHandlerNoDuplicateKey(name) ==
    IF name \in {"ValidationError", "CastError"} THEN 400
    ELSE IF name \in {"JsonWebTokenError", "TokenExpiredError"} THEN 401
    ELSE IF name = "MongoNetworkError" THEN 503
    ELSE 500

\* middleware/errorHandler: the status answered for an error a handler threw,
\* told by its name or, for a duplicate key, its code 11000
errorHandler(name) ==
    IF name \in {"ValidationError", "CastError"} THEN 400
    ELSE IF name = "E11000" THEN 400
    ELSE IF name \in {"JsonWebTokenError", "TokenExpiredError"} THEN 401
    ELSE IF name = "MongoNetworkError" THEN 503
    ELSE 500

SaveResult(status, store, seq, user, message) ==
    [status |-> status, users |-> store, seq |-> seq, user |-> user, message |-> message]

\* new User({username, email, password, firstName, lastName}) and user.save():
\* the unique indexes on username and email reject a duplicate with E11000,
\* which errorHandler answers with 400; a role in the body is not read
registerSave(store, seq, b) ==
    IF holders(store, b) # {}
    THEN SaveResult(errorHandler("E11000"), store, seq, NoUser,
                    IF \E u \in DOMAIN store : store[u].email = b.email
                    THEN "email already exists"
                    ELSE "username already exists")
    ELSE SaveResult(201, [u \in DOMAIN store \cup {seq + 1} |->
                             IF u \in DOMAIN store THEN store[u]
                             ELSE NewUser(b.username, b.email, b.password, "user")],
                    seq + 1, seq + 1, "User registered successfully")

userOfOid(oid) == CHOOSE u \in UserIds : UserOid(u) = oid

\* updateUser: writes isActive and role when the body carries them
updateUser(id, isActive, role) ==
    IF ~isValidObjectId(id) THEN [status |-> 400, users |-> users]
    ELSE IF \A u \in DOMAIN users : UserOid(u) # id THEN [status |-> 404, users |-> users]
    ELSE LET u == userOfOid(id)
         IN  [status |-> 200,
              users |-> [users EXCEPT
                           ![u].isActive = IF isActive.has THEN isActive.val ELSE @,
                           ![u].role = IF role.has THEN role.val ELSE @]]

deleteUser(reqUser, id) ==
    IF ~isValidObjectId(id) THEN [status |-> 400, users |-> users]
    ELSE IF id = UserOid(reqUser) THEN [status |-> 400, users |-> users]
    ELSE IF \A u \in DOMAIN users : UserOid(u) # id THEN [status |-> 404, users |-> users]
    ELSE [status |-> 200,
          users |-> [u \in DOMAIN users \ {userOfOid(id)} |-> users[u]]]

\* faulty variant of getUsers: .select('-password') is left out
getUsersNoSelect(store) ==
    [status |-> 200, total |-> Cardinality(DOMAIN store), json |-> UserFields]

\* getUsers with the default query: lean documents, loaded without the
\* password, are serialized as they are
getUsers(store) ==
    [status |-> 200, total |-> Cardinality(DOMAIN store),
     json |-> deselect(UserFields, "password")]

getUserById(id) ==
    IF ~isValidObjectId(id) THEN [status |-> 400, json |-> {}]
    ELSE IF \A u \in DOMAIN users : UserOid(u) # id THEN [status |-> 404, json |-> {}]
    ELSE [status |-> 200, json |-> toJSON(deselect(UserFields, "password"))]

\* updateProfile: writes the profile fields the body carries
updateProfile(reqUser, firstName) ==
    IF reqUser \notin DOMAIN users THEN [status |-> 404, users |-> users, json |-> {}]
    ELSE [status |-> 200,
          users |-> [users EXCEPT ![reqUser].firstName =
                                     IF firstName.has THEN firstName.val ELSE @],
          json |-> toJSON(UserFields)]

changePassword(reqUser, currentPassword, newPassword) ==
    IF Len(currentPassword) = 0 \/ Len(newPassword) = 0
    THEN [status |-> 400, users |-> users]
    ELSE IF ~validatePassword(newPassword) THEN [status |-> 400, users |-> users]
    ELSE IF ~comparePassword(currentPassword, users[reqUser].password)
    THEN [status |-> 400, users |-> users]
    ELSE [status |-> 200,
          users |-> [users EXCEPT ![reqUser].password = hashPassword(newPassword)]]

(***************************************************************************)
(* Requests: one action per route, running the middleware chain            *)
(***************************************************************************)
NoRole == [has |-> FALSE, val |-> "user"]

\* the response of a guard that ended the request
Rejected(op, h, status, message) ==
    [Resp(op, status, NoUser, 0) EXCEPT !.hdr = h, !.message = message]

\* the response of a handler that ran for the identity `user`
Handled(resp, h) == [resp EXCEPT !.hdr = h, !.ran = TRUE, !.calls = 1]

Tick ==
    /\ now < MaxClock
    /\ now' = now + 1
    /\ UNCHANGED <<users, userSeq, tokens, categories, client, posts, postSeq, pending, response>>

\* loginValidation as run by `validate`: isEmail on the address, notEmpty on
\* the password
loginValidation(email, password) == isValidEmail(email) /\ Len(password) > 0

\* POST /auth/login: loginValidation (which also normalises the address),
\* validate, login
RouteLogin(email, password) ==
    LET r == login(normalizeEmail(email), password)
        sent == [Resp("login", 0, NoUser, 0) EXCEPT
                    !.cred.email = email, !.cred.password = password]
    IN  IF ~loginValidation(email, password)
        THEN /\ response' = [sent EXCEPT !.status = 400, !.message = "Validation failed"]
             /\ UNCHANGED <<users, userSeq, tokens, now, categories, client, posts, postSeq, pending>>
        ELSE /\ r.status = 200 => Cardinality(tokens) < MaxTokens
             /\ tokens' = IF r.status = 200
                          THEN tokens \cup {generateToken(r.user, users[r.user], now)}
                          ELSE tokens
             /\ response' =
                  [sent EXCEPT !.status = r.status, !.user = r.user, !.ran = TRUE,
                               !.calls = 1, !.message = r.message,
                               !.token = IF r.status = 200
                                         THEN Some(generateToken(r.user, users[r.user], now))
                                         ELSE @,
                               !.userJson = IF r.status = 200
                                            THEN toJSON(deselect(UserFields, "password"))
                                            ELSE {}]
             /\ UNCHANGED <<users, userSeq, now, categories, client, posts, postSeq, pending>>

\* the body of a register request as the controller sees it
normalized(b) == [b EXCEPT !.email = normalizeEmail(b.email)]

\* POST /auth/register up to the point where User.findOne has answered
RegisterBegin(b) ==
    LET sent == [Resp("register", 400, NoUser, 0) EXCEPT !.cred = b]
        c == registerCheck(normalized(b))
    IN  /\ IF ~registerValidation(b)
           THEN /\ response' = [sent EXCEPT !.message = "Validation failed"]
                /\ UNCHANGED pending
           ELSE IF c.status # 0
           THEN /\ response' = [sent EXCEPT !.message = c.message, !.ran = TRUE, !.calls = 1]
                /\ UNCHANGED pending
           ELSE /\ Len(pending) < MaxPending
                /\ userSeq + Len(pending) < MaxUsers
                /\ pending' = Append(pending, [op |-> "register", user |-> NoUser, post |-> 0,
                                               doc |-> b, hdr |-> NoHeader])
                /\ UNCHANGED response
        /\ UNCHANGED <<users, userSeq, tokens, now, categories, client, posts, postSeq>>

\* the rest of register for the i-th request in flight: the user is saved,
\* the token generated and the response sent
RegisterEnd(i) ==
    LET req == pending[i]
        r == registerSave(users, userSeq, normalized(req.doc))
    IN  /\ req.op = "register"
        /\ r.seq <= MaxUsers
        /\ users' = r.users
        /\ userSeq' = r.seq
        /\ tokens' = IF r.status = 201
                     THEN tokens \cup {generateToken(r.user, r.users[r.user], now)}
                     ELSE tokens
        /\ response' =
             [Resp("register", r.status, r.user, 0) EXCEPT
                 !.cred = req.doc, !.ran = TRUE, !.calls = 1, !.message = r.message,
                 !.token = IF r.status = 201
                           THEN Some(generateToken(r.user, r.users[r.user], now))
                           ELSE @,
                 !.userJson = IF r.status = 201 THEN toJSON(UserFields) ELSE {}]
        /\ pending' = RemoveAt(pending, i)
        /\ UNCHANGED <<now, categories, client, posts, postSeq>>

\* GET /auth/profile: authenticate, getProfile
RouteGetProfile(h) ==
    LET a == authenticate(h)
    IN  /\ response' = IF a.next
                       THEN [Handled(Resp("getProfile", 200, a.user, 0), h) EXCEPT
                                !.userJson = toJSON(deselect(UserFields, "password"))]
                       ELSE Rejected("getProfile", h, a.status, a.message)
        /\ UNCHANGED <<users, userSeq, tokens, now, categories, client, posts, postSeq, pending>>

\* faulty variant of PUT /users/:id: authorize(['admin']) is left out
RouteUpdateUserNoAuthorize(h, id, isActive, role) ==
    LET a == authenticate(h)
        r == updateUser(id, isActive, role)
    IN  IF ~a.next
        THEN /\ response' = Rejected("updateUser", h, a.status, a.message)
             /\ UNCHANGED <<users, userSeq, tokens, now, categories, client, posts, postSeq, pending>>
        ELSE /\ response' = [Handled(Resp("updateUser", r.status, a.user, 0), h)
                                EXCEPT !.roles = {"admin"}, !.target = id]
             /\ users' = r.users
             /\ UNCHANGED <<userSeq, tokens, now, categories, client, posts, postSeq, pending>>

\* PUT /users/:id: authenticate, authorize(['admin']), updateUser
RouteUpdateUser(h, id, isActive, role) ==
    LET a == authenticate(h)
        z == authorize({"admin"}, a.user)
        r == updateUser(id, isActive, role)
    IN  IF ~a.next
        THEN /\ response' = Rejected("updateUser", h, a.status, a.message)
             /\ UNCHANGED <<users, userSeq, tokens, now, categories, client, posts, postSeq, pending>>
        ELSE IF ~z.next
        THEN /\ response' = [Rejected("updateUser", h, z.status, "") EXCEPT
                                !.user = a.user, !.roles = {"admin"}]
             /\ UNCHANGED <<users, userSeq, tokens, now, categories, client, posts, postSeq, pending>>
        ELSE /\ response' = [Handled(Resp("updateUser", r.status, a.user, 0), h)
                                EXCEPT !.roles = {"admin"}, !.target = id,
                                       !.userJson = IF r.status = 200
                                                    THEN toJSON(UserFields) ELSE {}]
             /\ users' = r.users
             /\ UNCHANGED <<userSeq, tokens, now, categories, client, posts, postSeq, pending>>

\* GET /users: authenticate, authorize(['admin']), getUsersValidation,
\* validate, getUsers
RouteGetUsers(h) ==
    LET a == authenticate(h)
        z == authorize({"admin"}, a.user)
        r == getUsers(users)
    IN  /\ response' =
             IF ~a.next THEN Rejected("getUsers", h, a.status, a.message)
             ELSE IF ~z.next
             THEN [Rejected("getUsers", h, z.status, "") EXCEPT
                      !.user = a.user, !.roles = {"admin"}]
             ELSE [Handled(Resp("getUsers", r.status, a.user, 0), h) EXCEPT
                      !.roles = {"admin"}, !.total = r.total, !.userJson = r.json]
        /\ UNCHANGED <<users, userSeq, tokens, now, categories, client, posts, postSeq, pending>>

\* GET /users/:id: authenticate, getUserById
RouteGetUserById(h, id) ==
    LET a == authenticate(h)
        r == getUserById(id)
    IN  /\ response' =
             IF ~a.next THEN Rejected("getUserById", h, a.status, a.message)
             ELSE [Handled(Resp("getUserById", r.status, a.user, 0), h) EXCEPT
                      !.target = id, !.userJson = r.json]
        /\ UNCHANGED <<users, userSeq, tokens, now, categories, client, posts, postSeq, pending>>

\* PUT /auth/profile: authenticate, updateProfileValidation, validate,
\* updateProfile
RouteUpdateProfile(h, firstName) ==
    LET a == authenticate(h)
        r == updateProfile(a.user, firstName)
    IN  IF ~a.next
        THEN /\ response' = Rejected("updateProfile", h, a.status, a.message)
             /\ UNCHANGED <<users, userSeq, tokens, now, categories, client, posts, postSeq, pending>>
        ELSE /\ response' = [Handled(Resp("updateProfile", r.status, a.user, 0), h)
                                EXCEPT !.userJson = r.json]
             /\ users' = r.users
             /\ UNCHANGED <<userSeq, tokens, now, categories, client, posts, postSeq, pending>>

\* PUT /auth/change-password: authenticate, changePasswordValidation,
\* validate, changePassword
RouteChangePassword(h, currentPassword, newPassword) ==
    LET a == authenticate(h)
        r == changePassword(a.user, currentPassword, newPassword)
        sent == [Resp("changePassword", 0, a.user, 0) EXCEPT
                    !.hdr = h, !.cred.password = newPassword]
    IN  IF ~a.next
        THEN /\ response' = Rejected("changePassword", h, a.status, a.message)
             /\ UNCHANGED <<users, userSeq, tokens, now, categories, client, posts, postSeq, pending>>
        ELSE IF Len(currentPassword) = 0 \/ Len(newPassword) < MinPasswordLen
        THEN /\ response' = [sent EXCEPT !.status = 400, !.message = "Validation failed"]
             /\ UNCHANGED <<users, userSeq, tokens, now, categories, client, posts, postSeq, pending>>
        ELSE /\ response' = [sent EXCEPT !.status = r.status, !.ran = TRUE, !.calls = 1]
             /\ users' = r.users
             /\ UNCHANGED <<userSeq, tokens, now, categories, client, posts, postSeq, pending>>

\* DELETE /users/:id: authenticate, authorize(['admin']), deleteUser
RouteDeleteUser(h, id) ==
    LET a == authenticate(h)
        z == authorize({"admin"}, a.user)
        r == deleteUser(a.user, id)
    IN  IF ~a.next
        THEN /\ response' = Rejected("deleteUser", h, a.status, a.message)
             /\ UNCHANGED <<users, userSeq, tokens, now, categories, client, posts, postSeq, pending>>
        ELSE IF ~z.next
        THEN /\ response' = [Rejected("deleteUser", h, z.status, "") EXCEPT
                                !.user = a.user, !.roles = {"admin"}]
             /\ UNCHANGED <<users, userSeq, tokens, now, categories, client, posts, postSeq, pending>>
        ELSE /\ response' = [Handled(Resp("deleteUser", r.status, a.user, 0), h)
                                EXCEPT !.roles = {"admin"}]
             /\ users' = r.users
             /\ UNCHANGED <<userSeq, tokens, now, categories, client, posts, postSeq, pending>>

\* authorize(roles) applied to a request whose identity, if any, was
\* attached by optionalAuth
ApplyAuthorize(h, roles) ==
    LET o == optionalAuth(h)
        z == authorize(roles, o.user)
    IN  /\ response' = IF z.next
                       THEN [Handled(Resp("authorize", 200, o.user, 0), h)
                                EXCEPT !.roles = roles]
                       ELSE [Rejected("authorize", h, z.status, "") EXCEPT
                                !.user = o.user, !.roles = roles]
        /\ UNCHANGED <<users, userSeq, tokens, now, categories, client, posts, postSeq, pending>>

\* GET /posts: getPostsValidation, validate, optionalAuth, getPosts
RouteGetPosts(h, q) ==
    \E tie \in TieOrders :
      LET o == optionalAuth(h)
          r == getPosts(o.user, q, tie)
      IN
        /\ response' =
            IF ~getPostsValidation(q) THEN Rejected("getPosts", h, 400, "Validation failed")
            ELSE IF o.sent THEN Rejected("getPosts", h, 401, "Invalid access token")
            ELSE IF o.calls = 0 THEN Rejected("getPosts", h, 0, "")
            ELSE [Handled(r.resp, h) EXCEPT !.calls = o.calls, !.query = q]
        /\ UNCHANGED <<users, userSeq, tokens, now, categories, client, posts, postSeq, pending>>

\* GET /posts/:identifier: optionalAuth, getPost
RouteGetPost(h, identifier) ==
    LET o == optionalAuth(h)
        r == getPost(o.user, identifier)
    IN  /\ \A p \in getPostMatches(o.user, identifier) : posts[p].views < MaxViews
        /\ response' =
              IF o.sent THEN Rejected("getPost", h, 401, "Invalid access token")
              ELSE IF o.calls = 0 THEN Rejected("getPost", h, 0, "")
              ELSE [Handled(r.resp, h) EXCEPT !.calls = o.calls, !.target = identifier]
        /\ posts' = IF o.calls = 0 THEN posts ELSE r.posts
        /\ UNCHANGED <<users, userSeq, tokens, now, categories, client, postSeq, pending>>

\* POST /posts: authenticate, createPostValidation, validate, createPost
RouteCreatePost(h, body) ==
    LET a == authenticate(h)
        r == createPost(a.user, body)
    IN  \* MaxPosts bounds the posts that are created, not the requests
        /\ postSeq < MaxPosts
           \/ ~a.next \/ ~createPostValidation(body) \/ r.resp.status # 201
        /\ IF ~a.next
           THEN /\ response' = Rejected("createPost", h, a.status, a.message)
                /\ UNCHANGED <<posts, postSeq>>
           ELSE IF ~createPostValidation(body)
           THEN /\ response' = [Rejected("createPost", h, 400, "Validation failed")
                                   EXCEPT !.user = a.user]
                /\ UNCHANGED <<posts, postSeq>>
           ELSE /\ response' = [Handled(r.resp, h) EXCEPT !.body = body]
                /\ posts' = r.posts
                /\ postSeq' = IF r.resp.status = 201 THEN postSeq + 1 ELSE postSeq
        /\ UNCHANGED <<users, userSeq, tokens, now, categories, client, pending>>

\* PUT /posts/:id: authenticate, updatePostValidation, validate, updatePost
RouteUpdatePost(h, id, body) ==
    LET a == authenticate(h)
        r == updatePost(a.user, id, body)
    IN  /\ IF ~a.next
           THEN /\ response' = [Rejected("updatePost", h, a.status, a.message)
                                   EXCEPT !.target = id]
                /\ UNCHANGED posts
           ELSE IF ~updatePostValidation(body)
           THEN /\ response' = [Rejected("updatePost", h, 400, "Validation failed")
                                   EXCEPT !.user = a.user, !.target = id, !.body = body]
                /\ UNCHANGED posts
           ELSE /\ response' = [Handled(r.resp, h) EXCEPT !.target = id, !.body = body]
                /\ posts' = r.posts
        /\ UNCHANGED <<users, userSeq, tokens, now, categories, client, postSeq, pending>>

\* DELETE /posts/:id: authenticate, deletePost
RouteDeletePost(h, id) ==
    LET a == authenticate(h)
        r == deletePost(a.user, id)
    IN  /\ IF ~a.next
           THEN /\ response' = [Rejected("deletePost", h, a.status, a.message)
                                   EXCEPT !.target = id]
                /\ UNCHANGED posts
           ELSE /\ response' = [Handled(r.resp, h) EXCEPT !.target = id]
                /\ posts' = r.posts
        /\ UNCHANGED <<users, userSeq, tokens, now, categories, client, postSeq, pending>>

\* POST /posts/:id/like: authenticate, then toggleLike up to the point where
\* Post.findById has delivered the document
ToggleLikeBegin(h, id) ==
    LET a == authenticate(h)
    IN  /\ IF ~a.next
           THEN /\ response' = [Rejected("toggleLike", h, a.status, a.message)
                                   EXCEPT !.target = id]
                /\ UNCHANGED pending
           ELSE IF toggleLikeFind(id) # 0
           THEN /\ response' = [Handled(Resp("toggleLike", toggleLikeFind(id), a.user, 0), h)
                                   EXCEPT !.target = id]
                /\ UNCHANGED pending
           ELSE /\ Len(pending) < MaxPending
                /\ posts[postOfOid(id)].v + Len(pending) < MaxVersion
                /\ pending' = Append(pending, [op |-> "toggleLike", user |-> a.user,
                                               post |-> postOfOid(id),
                                               doc |-> posts[postOfOid(id)], hdr |-> h])
                /\ UNCHANGED response
        /\ UNCHANGED <<users, userSeq, tokens, now, categories, client, posts, postSeq>>

\* the rest of toggleLike for the i-th request in flight: the like list is
\* changed on the document that was read, saved, and the response sent
ToggleLikeEnd(i) ==
    LET req == pending[i]
        r == toggleLikeSave(posts, req.post, req.doc, req.user)
    IN  /\ req.op = "toggleLike"
        /\ response' = [Handled(r.resp, req.hdr) EXCEPT !.target = PostOid(req.post)]
        /\ posts' = r.posts
        /\ pending' = RemoveAt(pending, i)
        /\ UNCHANGED <<users, userSeq, tokens, now, categories, client, postSeq>>

\* GET /posts/:identifier up to the point where Post.findOne has delivered
\* the document
GetPostBegin(h, identifier) ==
    LET o == optionalAuth(h)
        found == getPostMatches(o.user, identifier)
    IN  /\ IF found = {}
           THEN /\ response' = [Handled(Resp("getPost", 404, o.user, 0), h)
                                   EXCEPT !.target = identifier]
                /\ UNCHANGED pending
           ELSE LET p == CHOOSE q \in found : TRUE
                IN  /\ Len(pending) < MaxPending
                    /\ posts[p].views < MaxViews
                    /\ pending' = Append(pending, [op |-> "getPost", user |-> o.user,
                                                   post |-> p, doc |-> posts[p],
                                                   hdr |-> h])
                    /\ UNCHANGED response
        /\ UNCHANGED <<users, userSeq, tokens, now, categories, client, posts, postSeq>>

\* the rest of getPost for the i-th request in flight: views is raised on
\* the document that was read, saved, and the document sent
GetPostEnd(i) ==
    LET req == pending[i]
        r == getPostSave(posts, req.post, req.doc, req.user)
    IN  /\ req.op = "getPost"
        /\ response' = [Handled(r.resp, req.hdr) EXCEPT !.target = PostOid(req.post)]
        /\ posts' = r.posts
        /\ pending' = RemoveAt(pending, i)
        /\ UNCHANGED <<users, userSeq, tokens, now, categories, client, postSeq>>

\* POST /posts/:id/comments: authenticate, addCommentValidation, validate,
\* addComment
RouteAddComment(h, id, content) ==
    LET a == authenticate(h)
        r == addComment(a.user, id, content)
    IN  /\ \A p \in DOMAIN posts :
              PostOid(p) = id => Len(posts[p].comments) < MaxComments
                                 /\ posts[p].v + Len(pending) < MaxVersion
        /\ IF ~a.next
           THEN /\ response' = [Rejected("addComment", h, a.status, a.message)
                                   EXCEPT !.target = id, !.body.content = content]
                /\ UNCHANGED posts
           ELSE IF ~addCommentValidation(content)
           THEN /\ response' = [Rejected("addComment", h, 400, "Validation failed")
                                   EXCEPT !.user = a.user, !.target = id,
                                          !.body.content = content]
                /\ UNCHANGED posts
           ELSE /\ response' = [Handled(r.resp, h) EXCEPT !.target = id, !.body.content = content]
                /\ posts' = r.posts
        /\ UNCHANGED <<users, userSeq, tokens, now, categories, client, postSeq, pending>>

(***************************************************************************)
(* Browser client: AuthContext (client/src/contexts/AuthContext.jsx).      *)
(* `client` holds the reducer state, the two localStorage items and the    *)
(* calls of the provider that wait for their answer.                       *)
(***************************************************************************)
Null == "null"

ClientUsers == {"alice", "bob"}
ClientTokens == {"t1", "t2"}
ClientErrors == {"Login failed"}

initialState(storage) ==
    [user |-> Null, token |-> storage.token, loading |-> TRUE, error |-> Null,
     isAuthenticated |-> FALSE]

\* the provider after its first render, before the effect that loads the user
ClientOf(storage) ==
    [state |-> initialState(storage), storage |-> storage, last |-> "none",
     load |-> "mount", login |-> FALSE, register |-> FALSE, logout |-> "idle"]

NoItems == [token |-> Null, user |-> Null]

ClientAction(type, payload) == [type |-> type, payload |-> payload]

\* the reducer together with its writes to localStorage; c is the client
authReducer(c, action) ==
    LET state == c.state
        type == action.type
    IN  IF type \in {"LOGIN_START", "REGISTER_START", "LOAD_USER_START"}
        THEN [c EXCEPT !.state = [state EXCEPT !.loading = TRUE, !.error = Null],
                       !.last = type]
        ELSE IF type \in {"LOGIN_SUCCESS", "REGISTER_SUCCESS"}
        THEN [c EXCEPT !.storage = [token |-> action.payload.token,
                                    user |-> action.payload.user],
                       !.state = [user |-> action.payload.user,
                                  token |-> action.payload.token,
                                  loading |-> FALSE, error |-> Null,
                                  isAuthenticated |-> TRUE],
                       !.last = type]
        ELSE IF type \in {"LOAD_USER_SUCCESS", "UPDATE_USER"}
        THEN [c EXCEPT !.storage = [@ EXCEPT !.user = action.payload],
                       !.state = [state EXCEPT !.user = action.payload,
                                               !.loading = FALSE, !.error = Null,
                                               !.isAuthenticated = TRUE],
                       !.last = type]
        ELSE IF type \in {"LOGIN_FAILURE", "REGISTER_FAILURE", "LOAD_USER_FAILURE"}
        THEN [c EXCEPT !.storage = NoItems,
                       !.state = [user |-> Null, token |-> Null, loading |-> FALSE,
                                  error |-> action.payload,
                                  isAuthenticated |-> FALSE],
                       !.last = type]
        ELSE IF type = "LOGOUT"
        THEN [c EXCEPT !.storage = NoItems,
                       !.state = [user |-> Null, token |-> Null, loading |-> FALSE,
                                  error |-> Null, isAuthenticated |-> FALSE],
                       !.last = type]
        ELSE IF type = "CLEAR_ERROR"
        THEN [c EXCEPT !.state = [state EXCEPT !.error = Null], !.last = type]
        ELSE c

serverVars == <<users, userSeq, tokens, now, categories, posts, postSeq, pending, response>>

\* the effect of the provider: loadUser up to its `await authAPI.verify`
LoadUserBegin ==
    /\ client.load = "mount"
    /\ client' =
          IF client.storage.token # Null /\ client.storage.user # Null
          THEN [authReducer(client, ClientAction("LOAD_USER_START", Null))
                   EXCEPT !.load = "verifying"]
          ELSE [authReducer(client, ClientAction("LOAD_USER_FAILURE", Null))
                   EXCEPT !.load = "done"]
    /\ UNCHANGED serverVars

\* the answer of authAPI.verify: the user, or an error
LoadUserEnd(ok, user) ==
    /\ client.load = "verifying"
    /\ client' =
          [authReducer(client,
                       IF ok THEN ClientAction("LOAD_USER_SUCCESS", user)
                       ELSE ClientAction("LOAD_USER_FAILURE", "Failed to load user"))
              EXCEPT !.load = "done"]
    /\ UNCHANGED serverVars

\* login up to its `await authAPI.login`
LoginBegin ==
    /\ ~client.login
    /\ client' = [authReducer(client, ClientAction("LOGIN_START", Null))
                     EXCEPT !.login = TRUE]
    /\ UNCHANGED serverVars

LoginEnd(ok, user, token, message) ==
    /\ client.login
    /\ client' =
          [authReducer(client,
                       IF ok
                       THEN ClientAction("LOGIN_SUCCESS", [user |-> user, token |-> token])
                       ELSE ClientAction("LOGIN_FAILURE", message))
              EXCEPT !.login = FALSE]
    /\ UNCHANGED serverVars

\* register up to its `await authAPI.register`
RegisterCallBegin ==
    /\ ~client.register
    /\ client' = [authReducer(client, ClientAction("REGISTER_START", Null))
                     EXCEPT !.register = TRUE]
    /\ UNCHANGED serverVars

RegisterCallEnd(ok, user, token, message) ==
    /\ client.register
    /\ client' =
          [authReducer(client,
                       IF ok
                       THEN ClientAction("REGISTER_SUCCESS",
                                         [user |-> user, token |-> token])
                       ELSE ClientAction("REGISTER_FAILURE", message))
              EXCEPT !.register = FALSE]
    /\ UNCHANGED serverVars

\* logout up to its `await authAPI.logout`; without a token nothing is
\* awaited and the finally block runs at once
LogoutBegin ==
    /\ client.logout = "idle"
    /\ client' =
          IF client.state.token # Null
          THEN [client EXCEPT !.logout = "calling"]
          ELSE authReducer(client, ClientAction("LOGOUT", Null))
    /\ UNCHANGED serverVars

\* faulty variant of LogoutEnd: the dispatch is in the try block, not in finally
LogoutEndNoFinally(ok) ==
    /\ client.logout = "calling"
    /\ client' =
          IF ok
          THEN [authReducer(client, ClientAction("LOGOUT", Null)) EXCEPT !.logout = "idle"]
          ELSE [client EXCEPT !.logout = "idle"]
    /\ UNCHANGED serverVars

\* the logout call has answered (ok) or thrown: the finally block
LogoutEnd(ok) ==
    /\ client.logout = "calling"
    /\ client' = [authReducer(client, ClientAction("LOGOUT", Null))
                     EXCEPT !.logout = "idle"]
    /\ UNCHANGED serverVars

\* updateUser of the provider
ClientUpdateUser(userData) ==
    /\ client' = authReducer(client, ClientAction("UPDATE_USER", userData))
    /\ UNCHANGED serverVars

clearError ==
    /\ client' = authReducer(client, ClientAction("CLEAR_ERROR", Null))
    /\ UNCHANGED serverVars

(***************************************************************************)
(* Specification of the guards: accounts, tokens and the clock move        *)
(***************************************************************************)
EmptyPosts == [p \in {} |-> 0]

StartResponse == Resp("none", 0, NoUser, 0)

DefaultQuery ==
    [page |-> 1, limit |-> 10, status |-> NoStatus, category |-> NoStr,
     author |-> NoStr, search |-> NoStr, sortBy |-> "createdAt", sortOrder |-> "desc"]

\* the guards are exercised on two accounts; the admin routes are aimed at
\* the ordinary one
AuthUsers == {AdminId, AliceId}
AuthTargets == {UserOid(AliceId)}
AuthLogins == { <<Email(AdminName), AdminPass>>, <<Email(AliceName), AlicePass>> }
UpdateInputs == { <<Some(FALSE), NoRole>>, <<Some(TRUE), NoRole>> }

InitAuth ==
    /\ users = [u \in AuthUsers |-> SeedUsers[u]]
    /\ userSeq = AliceId
    /\ tokens = {}
    /\ now = 0
    /\ categories = {1}
    /\ client = ClientOf(NoItems)
    /\ posts = EmptyPosts
    /\ postSeq = 0
    /\ pending = <<>>
    /\ response = StartResponse

NextAuth ==
    \/ Tick
    \/ \E c \in AuthLogins : RouteLogin(c[1], c[2])
    \/ \E h \in Headers : RouteGetProfile(h)
    \/ \E h \in PlainHeaders, id \in AuthTargets, b \in UpdateInputs :
          RouteUpdateUser(h, id, b[1], b[2])
    \/ \E h \in PlainHeaders, id \in AuthTargets : RouteDeleteUser(h, id)
    \/ \E h \in PlainHeaders, roles \in SUBSET Roles : ApplyAuthorize(h, roles)
    \/ \E h \in Headers : RouteGetPosts(h, DefaultQuery)

SpecAuth == InitAuth /\ [][NextAuth]_vars

\* the header carries a validly signed, unexpired token of an existing,
\* active account
ValidCredential(h) ==
    /\ h.scheme = "Bearer"
    /\ h.token.sig = h.token.payload
    /\ now < h.token.payload.exp
    /\ h.token.payload.id \in DOMAIN users
    /\ users[h.token.payload.id].isActive

\* the routes that sit behind authenticate
ProtectedOps ==
    {"getProfile", "updateUser", "deleteUser", "createPost", "updatePost",
     "deletePost", "toggleLike", "addComment"}

\* this step answered a request to the route `op`
Answered(op) ==
    /\ response'.op = op
    /\ now' = now
    /\ response' # response \/ users' # users \/ posts' # posts \/ pending' # pending

\* C5: authenticate passes a request on, with the token's user attached,
\* exactly when the header carries a valid token of an existing active
\* account; every other request is answered 401, the handler does not run
\* and the stores are unchanged.
C5_RequireAuth ==
    [][\A op \in ProtectedOps :
         Answered(op)
         => LET h == response'.hdr
            IN  IF ValidCredential(h)
                THEN /\ response'.user = h.token.payload.id
                     /\ response'.status # 401
                     /\ response'.roles = {} => response'.ran
                ELSE /\ response'.status = 401
                     /\ ~response'.ran
                     /\ response'.user = NoUser
                     /\ users' = users
                     /\ posts' = posts
                     /\ pending' = pending]_vars

\* a token as it was issued is turned away because its account was
\* deactivated
C5_Witness ==
    /\ response.op = "getProfile"
    /\ response.status = 401
    /\ response.message = "User account is deactivated"
    /\ Kind(response.hdr) = "issued"
    /\ ~response.ran

\* C6 as stated: whatever the allowed set, an identity whose role is not in
\* it gets 403, one whose role is in it is passed on, no identity gets 401.
C6_RequireRoleAnySet ==
    [][Answered("authorize")
         => LET u == response'.user
                roles == response'.roles
            IN  IF u = NoUser THEN response'.status = 401 /\ ~response'.ran
                ELSE IF users[u].role \notin roles
                     THEN response'.status = 403 /\ ~response'.ran
                     ELSE response'.ran]_vars

\* C6 amended: for a non-empty allowed set, an identity whose role is not in
\* it gets 403 and the handler does not run, one whose role is in it is
\* passed on; an empty allowed set passes every identity on; a request with
\* no identity gets 401.
C6_RequireRole ==
    [][Answered("authorize")
         => LET u == response'.user
                roles == response'.roles
            IN  IF u = NoUser THEN response'.status = 401 /\ ~response'.ran
                ELSE IF roles # {} /\ users[u].role \notin roles
                     THEN response'.status = 403 /\ ~response'.ran
                     ELSE response'.ran /\ response'.status = 200]_vars

\* an identity went through a guard whose allowed set is empty
C6_Witness ==
    /\ response.op = "authorize"
    /\ response.roles = {}
    /\ response.user # NoUser
    /\ response.ran

\* C7: optionalAuth sends no response of its own and calls next exactly
\* once for every header; the identity it attaches is the token's user when
\* the credential is valid and none otherwise.
C7_OptionalAuth ==
    [][Answered("getPosts")
         => LET h == response'.hdr
            IN  /\ response'.status = 200
                /\ response'.ran
                /\ response'.calls = 1
                /\ response'.user = IF ValidCredential(h) THEN h.token.payload.id
                                    ELSE NoUser]_vars

\* a token as it was issued, by now expired, was presented and the listing
\* was served anonymously
C7_Witness ==
    /\ response.op = "getPosts"
    /\ Kind(response.hdr) = "issued"
    /\ response.hdr.token.payload.exp <= now
    /\ response.status = 200
    /\ response.ran
    /\ response.user = NoUser

TitleA == <<"M","y"," ","d","a","y","!">>
TitleB == <<"O","t","h","e","r">>
TitleShort == <<"H","i">>
ContentOk == Str(MinContentLen, "x")

Body(title, content, category, status) ==
    [title |-> title, content |-> content, category |-> category, status |-> status,
     author |-> NoStr]

SeedTokens == { generateToken(u, SeedUsers[u], 0) : u \in SeedIds }

TokenOf(u) == generateToken(u, SeedUsers[u], 0)

PostOids == { PostOid(p) : p \in PostIds }

CreateBodies ==
    { Body(Some(t), Some(ContentOk), NoStr, st) :
        t \in {TitleA, TitleB}, st \in {NoStatus, Some("published")} }
    \cup {Body(Some(TitleShort), Some(ContentOk), NoStr, NoStatus),
          Body(Some(TitleA), Some(ContentOk), Some(CategoryOid(2)), NoStatus)}

UpdateBodies ==
    { Body(NoStr, NoStr, NoStr, Some(st)) : st \in Statuses }
    \cup {Body(Some(TitleB), NoStr, NoStr, NoStatus),
          Body(Some(TitleShort), NoStr, NoStr, NoStatus),
          Body(NoStr, NoStr, Some(CategoryOid(2)), NoStatus)}

Identifiers == PostOids \cup {slugify(TitleA), slugify(TitleB)}

Queries ==
    { DefaultQuery,
      [DefaultQuery EXCEPT !.status = Some("draft")],
      [DefaultQuery EXCEPT !.author = Some(UserOid(AliceId))],
      [DefaultQuery EXCEPT !.status = Some("published"), !.page = 2, !.limit = 1] }

InitPosts ==
    /\ users = SeedUsers
    /\ userSeq = BobId
    /\ tokens = SeedTokens
    /\ now = 0
    /\ categories = {1}
    /\ client = ClientOf(NoItems)
    /\ posts = EmptyPosts
    /\ postSeq = 0
    /\ pending = <<>>
    /\ response = StartResponse

NextPosts ==
    \/ \E h \in {NoHeader, Header("Bearer", TokenOf(AliceId))}, b \in CreateBodies :
          RouteCreatePost(h, b)
    \/ \E h \in PlainHeaders, id \in PostOids, b \in UpdateBodies : RouteUpdatePost(h, id, b)
    \/ \E h \in PlainHeaders, id \in PostOids : RouteDeletePost(h, id)
    \/ \E h \in PlainHeaders, ident \in Identifiers : RouteGetPost(h, ident)
    \/ \E h \in PlainHeaders, q \in Queries : RouteGetPosts(h, q)

SpecPosts == InitPosts /\ [][NextPosts]_vars

\* the requester of the last request may see drafts of post p under the
\* visibility rule: its author or an admin
isOwner(u, p) == u # NoUser /\ (posts[p].author = u \/ users[u].role = "admin")

\* identifier names post p, by id or by slug
Names(identifier, p) == identifier = PostOid(p) \/ identifier = posts[p].slug

\* C1: a draft post is never returned by getPosts to, and is answered 404 by
\* getPost for, a requester that is anonymous or neither its author nor an
\* admin, whatever the query filters.
C1_DraftHidden ==
    [][/\ Answered("getPosts")
          => \A i \in 1..Len(response'.items) :
                posts[response'.items[i]].status = "draft"
                   => isOwner(response'.user, response'.items[i])
       /\ Answered("getPost")
          => \A p \in DOMAIN posts :
                (/\ posts[p].status = "draft"
                 /\ Names(response'.target, p)
                 /\ ~isOwner(response'.user, p))
                => response'.status = 404]_vars

\* C2: getPost answers 200 with the post when the author or an admin asks
\* for a draft, and an unfiltered first page of getPosts holds the draft for
\* them.
C2_DraftVisibleToOwner ==
    [][/\ Answered("getPost")
          => \A p \in DOMAIN posts :
                (/\ posts[p].status = "draft"
                 /\ Names(response'.target, p)
                 /\ isOwner(response'.user, p))
                => response'.status = 200 /\ response'.post = p
       /\ (Answered("getPosts") /\ response'.query = DefaultQuery)
          => \A p \in DOMAIN posts :
                (posts[p].status = "draft" /\ isOwner(response'.user, p))
                => \E i \in 1..Len(response'.items) : response'.items[i] = p]_vars

(***************************************************************************)
(* Specification of edits: alice writes posts; alice, bob, the admin and   *)
(* anonymous callers send updates                                          *)
(***************************************************************************)
EditCreateBodies ==
    { Body(Some(t), Some(ContentOk), NoStr, NoStatus) : t \in {TitleA, TitleB} }

EditBodies ==
    {Body(NoStr, NoStr, NoStr, Some("published")),
     Body(Some(TitleB), NoStr, NoStr, NoStatus),
     Body(Some(TitleShort), NoStr, NoStr, NoStatus),
     Body(NoStr, NoStr, Some(CategoryOid(1)), NoStatus),
     Body(NoStr, NoStr, Some(CategoryOid(2)), NoStatus)}

NextEdit ==
    \/ \E b \in EditCreateBodies : RouteCreatePost(Header("Bearer", TokenOf(AliceId)), b)
    \/ \E h \in PlainHeaders, id \in PostOids, b \in EditBodies : RouteUpdatePost(h, id, b)

SpecEdit == InitPosts /\ [][NextEdit]_vars

\* the body asks for nothing the handler rejects as bad input
WellFormedUpdate(body) ==
    /\ updatePostValidation(body)
    /\ Truthy(body.title) => Len(trim(body.title.val)) >= MinTitleLen
    /\ Truthy(body.category) => categoryExists(body.category.val)

\* what the body writes, field by field
Applied(old, new, body) ==
    /\ new.title = IF Truthy(body.title) THEN trim(body.title.val) ELSE old.title
    /\ new.content = IF Truthy(body.content) THEN body.content.val ELSE old.content
    /\ new.status = IF body.status.has THEN body.status.val ELSE old.status
    /\ new.category = IF body.category.has
                      THEN IF Truthy(body.category) THEN categoryOf(body.category.val)
                           ELSE NoCategory
                      ELSE old.category
    /\ new.author = old.author
    /\ new.views = old.views
    /\ new.likes = old.likes
    /\ new.comments = old.comments

C3_WitnessForbidden ==
    /\ response.op = "updatePost"
    /\ response.status = 403
    /\ response.user = BobId
    /\ response.post \in DOMAIN posts
    /\ posts[response.post].author = AliceId

(***************************************************************************)
(* Specification of likes, comments and removal: toggleLike requests may   *)
(* interleave between their read and their save                            *)
(***************************************************************************)
CommentOk == <<"n","i","c","e">>
CommentBlank == <<" ">>

LikeCreateBody == Body(Some(TitleA), Some(ContentOk), NoStr, Some("published"))
LikeUpdateBody == Body(NoStr, NoStr, NoStr, Some("published"))

Liker == Header("Bearer", TokenOf(BobId))

NextLike ==
    \/ RouteCreatePost(Header("Bearer", TokenOf(AliceId)), LikeCreateBody)
    \/ \E h \in PlainHeaders, id \in PostOids : RouteDeletePost(h, id)
    \/ \E h \in {Liker, NoHeader}, id \in PostOids : ToggleLikeBegin(h, id)
    \/ \E i \in 1..Len(pending) : ToggleLikeEnd(i)
    \/ \E id \in PostOids, c \in {Some(CommentOk), Some(CommentBlank)} :
          RouteAddComment(Liker, id, c)
    \/ \E id \in PostOids :
          RouteUpdatePost(Header("Bearer", TokenOf(AliceId)), id, LikeUpdateBody)

SpecLike == InitPosts /\ [][NextLike]_vars

\* ids of posts that were created and have been deleted
Deleted == (1..postSeq) \ DOMAIN posts

\* every well-formed request on a deleted id is answered 404
DeletedGone ==
    \A p \in Deleted :
       /\ \A u \in DOMAIN users \cup {NoUser} :
             getPost(u, PostOid(p)).resp.status = 404
       /\ \A u \in DOMAIN users :
             /\ updatePost(u, PostOid(p), LikeUpdateBody).resp.status = 404
             /\ deletePost(u, PostOid(p)).resp.status = 404
             /\ addComment(u, PostOid(p), Some(CommentOk)).resp.status = 404
       /\ toggleLikeFind(PostOid(p)) = 404

\* what deletePost answers and does to the store, by requester
DeleteOutcome ==
    Answered("deletePost")
    => \A p \in DOMAIN posts :
          (response'.target = PostOid(p) /\ response'.user # NoUser)
          => IF ~isOwner(response'.user, p)
             THEN response'.status = 403 /\ posts' = posts
             ELSE /\ response'.status = 200
                  /\ DOMAIN posts' = DOMAIN posts \ {p}
                  /\ \A q \in DOMAIN posts' : posts'[q] = posts[q]

\* a handler was run for a request that arrived with the id of a post
\* deleted before (the save of a toggleLike that read the post before its
\* deletion is not such a request: it takes an entry out of pending)
OnDeleted(op) ==
    /\ Answered(op)
    /\ response'.ran
    /\ pending' = pending
    /\ \E p \in Deleted : response'.target = PostOid(p)

BlankComment ==
    ~Truthy(response'.body.content) \/ Len(trim(response'.body.content.val)) = 0

C8_OneLikePerUser ==
    \A p \in DOMAIN posts :
       /\ \A i, j \in 1..Len(posts[p].likes) :
             posts[p].likes[i].user = posts[p].likes[j].user => i = j
       /\ likeCount(posts[p]) =
             Cardinality({ posts[p].likes[i].user : i \in 1..Len(posts[p].likes) })

\* a complete toggleLike run on the stored post with nothing in between
toggleLike(store, p, u) == toggleLikeSave(store, p, store[p], u)

\* C9: two toggleLike runs in a row by one user restore that user's isLiked
\* and the post's likeCount, and each run reports the isLiked and likeCount
\* of the post as stored after it, liked exactly when the user had no entry.
C9_ToggleInvolution ==
    \A p \in DOMAIN posts : \A u \in DOMAIN users :
       LET first == toggleLike(posts, p, u)
           second == toggleLike(first.posts, p, u)
       IN  /\ first.resp.status = 200 /\ second.resp.status = 200
           /\ isLikedByUser(second.posts[p], u) = isLikedByUser(posts[p], u)
           /\ likeCount(second.posts[p]) = likeCount(posts[p])
           /\ first.resp.isLiked = ~isLikedByUser(posts[p], u)
           /\ first.resp.isLiked = isLikedByUser(first.posts[p], u)
           /\ first.resp.likeCount = likeCount(first.posts[p])
           /\ second.resp.isLiked = isLikedByUser(second.posts[p], u)
           /\ second.resp.likeCount = likeCount(second.posts[p])

(***************************************************************************)
(* Specification of publication: time passes between the saves of a post   *)
(***************************************************************************)
Author == Header("Bearer", TokenOf(AliceId))

PublishCreateBodies ==
    { Body(Some(TitleA), Some(ContentOk), NoStr, st) :
        st \in {NoStatus, Some("published")} }

PublishUpdateBodies ==
    { Body(NoStr, NoStr, NoStr, Some(st)) : st \in Statuses }
    \cup {Body(Some(TitleB), NoStr, NoStr, NoStatus)}

NextPublish ==
    \/ Tick
    \/ \E b \in PublishCreateBodies : RouteCreatePost(Author, b)
    \/ \E id \in PostOids, b \in PublishUpdateBodies : RouteUpdatePost(Author, id, b)
    \/ \E id \in PostOids : RouteGetPost(NoHeader, id)

SpecPublish == InitPosts /\ [][NextPublish]_vars

TitlePunct == Str(MinTitleLen, "!")

\* a title of 24 hexadecimal digits
TitleHex == Str(ObjectIdLen, "a")

SlugCreateBodies ==
    { Body(Some(t), Some(ContentOk), NoStr, NoStatus) :
        t \in {TitleA, TitlePunct, TitleHex} }

SlugUpdateBodies ==
    { Body(Some(t), NoStr, NoStr, NoStatus) : t \in {TitleA, TitleB} }
    \cup {Body(NoStr, NoStr, NoStr, Some("published"))}

NextSlug ==
    \/ \E b \in SlugCreateBodies : RouteCreatePost(Author, b)
    \/ \E h \in {Author}, id \in PostOids, b \in SlugUpdateBodies :
          RouteUpdatePost(h, id, b)
    \/ \E ident \in Identifiers \cup {slugify(TitleHex)} : RouteGetPost(NoHeader, ident)

SpecSlug == InitPosts /\ [][NextSlug]_vars

\* C11: no step changes the slug of a stored post: the slug a post has after
\* its creation stays, whatever later updates do to the title.
C11_SlugImmutable ==
    [][\A p \in DOMAIN posts \cap DOMAIN posts' :
          posts'[p].slug = posts[p].slug]_vars

(***************************************************************************)
(* Specification of views: view requests may interleave between their read *)
(* and their save                                                          *)
(***************************************************************************)
ViewCreateBodies ==
    { Body(Some(TitleA), Some(ContentOk), NoStr, st) :
        st \in {NoStatus, Some("published")} }

ViewUpdateBody == Body(NoStr, NoStr, NoStr, Some("published"))

NextView ==
    \/ \E b \in ViewCreateBodies : RouteCreatePost(Author, b)
    \/ \E id \in PostOids : RouteUpdatePost(Author, id, ViewUpdateBody)
    \/ \E h \in PlainHeaders, ident \in Identifiers : GetPostBegin(h, ident)
    \/ \E i \in 1..Len(pending) : GetPostEnd(i)

SpecView == InitPosts /\ [][NextView]_vars

\* this step sent the response of a view request
Viewed ==
    /\ Answered("getPost")
    /\ Len(pending') <= Len(pending)

\* every stored post keeps its view counter, except those in `but`
ViewsKept(but) ==
    \A q \in (DOMAIN posts \cap DOMAIN posts') \ but : posts'[q].views = posts[q].views

\* C12: a view answered 200 raises the stored view counter of its post by
\* exactly 1 and returns the raised value, a post starts with the counter
\* at 0, and a view answered 404 and every other step leave every counter
\* as it was.
C12_ViewCounts ==
    [][/\ \A p \in DOMAIN posts' \ DOMAIN posts : posts'[p].views = 0
       /\ IF Viewed /\ response'.status = 200
          THEN /\ response'.post \in DOMAIN posts
               /\ posts'[response'.post].views = posts[response'.post].views + 1
               /\ response'.views = posts'[response'.post].views
               /\ ViewsKept({response'.post})
          ELSE ViewsKept({})]_vars

(***************************************************************************)
(* Specification of login: the admin deactivates, reactivates and removes  *)
(* an account while clients log in with right and wrong credentials        *)
(***************************************************************************)
\* alice's address as a client may type it
AliceEmailTyped == <<"A", "l", "i">> \o <<"@", "x", ".", "y", "z">>

LoginEmails == {Email(AdminName), Email(AliceName), AliceEmailTyped, Email(BobName), AliceName}
LoginPasswords == {AdminPass, AlicePass, <<>>}

NextLogin ==
    \/ Tick
    \/ \E e \in LoginEmails, pw \in LoginPasswords : RouteLogin(e, pw)
    \/ \E h \in PlainHeaders, id \in AuthTargets, b \in UpdateInputs :
          RouteUpdateUser(h, id, b[1], b[2])
    \/ \E h \in PlainHeaders, id \in AuthTargets : RouteDeleteUser(h, id)

SpecLogin == InitAuth /\ [][NextLogin]_vars

\* the stored accounts the credentials of a login request verify against
Verified(cred) ==
    { u \in DOMAIN users :
        /\ users[u].email = normalizeEmail(cred.email)
        /\ users[u].isActive
        /\ comparePassword(cred.password, users[u].password) }

\* C13: a login request with a well-formed body is answered 200 with a user
\* and a freshly issued token exactly when its email is the address of a stored,
\* active account whose hash the password verifies against; in every other
\* case it is answered 401 'Invalid credentials' and no token is issued
C13_Login ==
    [][ (Answered("login") /\ loginValidation(response'.cred.email, response'.cred.password))
        => IF Verified(response'.cred) # {}
           THEN /\ response'.status = 200
                /\ response'.user \in Verified(response'.cred)
                /\ response'.token.has
                /\ response'.token.val \in tokens'
                /\ verifyToken(response'.token.val, now).ok
                /\ verifyToken(response'.token.val, now).claims.id = response'.user
           ELSE /\ response'.status = 401
                /\ response'.message = "Invalid credentials"
                /\ ~response'.token.has
                /\ tokens' = tokens ]_vars

\* the right password of a deactivated account was turned away
C13_Witness ==
    /\ response.op = "login"
    /\ response.status = 401
    /\ \E u \in DOMAIN users :
          /\ users[u].email = normalizeEmail(response.cred.email)
          /\ comparePassword(response.cred.password, users[u].password)
          /\ ~users[u].isActive

(***************************************************************************)
(* Specification of registration: register requests may interleave between *)
(* their look-up and their save                                            *)
(***************************************************************************)
BobEmailTyped == <<"B", "o", "b">> \o <<"@", "x", ".", "y", "z">>

RegisterBodies ==
    { [username |-> n, email |-> e, password |-> pw, role |-> r] :
        n \in {AliceName, BobName},
        e \in {Email(AliceName), Email(BobName), BobEmailTyped},
        pw \in {BobPass, AliceName},
        r \in {NoRole, Some("admin")} }

NextRegister ==
    \/ \E b \in RegisterBodies : RegisterBegin(b)
    \/ \E i \in 1..Len(pending) : RegisterEnd(i)
    \/ \E e \in {Email(BobName)}, pw \in {BobPass} : RouteLogin(e, pw)

SpecRegister == InitAuth /\ [][NextRegister]_vars

\* the username or the normalised email of the request is held by a user
Taken(cred) ==
    \E u \in DOMAIN users :
        users[u].username = cred.username \/ users[u].email = normalizeEmail(cred.email)

\* C14: no two stored users share a username or an email, whatever the
\* interleaving of registrations; a register request whose username or email
\* is taken when it is answered gets 400 and stores no user
C14_UniqueUsers ==
    [][ /\ \A u, v \in DOMAIN users' :
              u # v => /\ users'[u].username # users'[v].username
                       /\ users'[u].email # users'[v].email
        /\ (Answered("register") /\ Taken(response'.cred))
              => /\ response'.status = 400
                 /\ users' = users ]_vars

\* a registration that passed the look-up lost against one saved in between
C14_Witness ==
    /\ response.op = "register"
    /\ response.status = 400
    /\ response.message = "email already exists"
    /\ \E u \in DOMAIN users \ AuthUsers :
          users[u].email = normalizeEmail(response.cred.email)

(***************************************************************************)
(* Specification of accounts: a visitor registers, users log in, read and  *)
(* edit their profile and change their password, the admin lists users and *)
(* changes roles and active flags                                          *)
(***************************************************************************)
NoFlag == [has |-> FALSE, val |-> TRUE]

\* the visitor asks for the admin role
AccountBodies ==
    { [username |-> BobName, email |-> Email(BobName), password |-> BobPass,
       role |-> Some("admin")] }
AccountUpdates == { <<Some(FALSE), NoRole>>, <<NoFlag, Some("admin")>> }
NewPasswords == {BobPass}
FirstNames == {Some(<<"A", "l">>)}

NextAccounts ==
    \/ \E b \in AccountBodies : RegisterBegin(b)
    \/ \E i \in 1..Len(pending) : RegisterEnd(i)
    \/ \E c \in AuthLogins : RouteLogin(c[1], c[2])
    \/ \E h \in PlainHeaders : RouteGetProfile(h)
    \/ \E h \in PlainHeaders : RouteGetUsers(h)
    \/ \E h \in PlainHeaders, id \in AuthTargets : RouteGetUserById(h, id)
    \/ \E h \in PlainHeaders, n \in FirstNames : RouteUpdateProfile(h, n)
    \/ \E h \in PlainHeaders, pw \in NewPasswords : RouteChangePassword(h, AlicePass, pw)
    \/ \E h \in PlainHeaders, id \in AuthTargets, b \in AccountUpdates :
          RouteUpdateUser(h, id, b[1], b[2])

SpecAccounts == InitAuth /\ [][NextAccounts]_vars

\* C15: no user object in a response carries a password field (register,
\* login, profile, listing, admin update), and the password stored by a
\* registration or a password change is never the submitted plaintext
C15_NoPasswordOut ==
    [][ /\ "password" \notin response'.userJson
        /\ (Answered("register") /\ response'.status = 201)
              => /\ "username" \in response'.userJson
                 /\ users'[response'.user].password # response'.cred.password
        /\ (Answered("changePassword") /\ response'.status = 200)
              => users'[response'.user].password # response'.cred.password ]_vars

\* the admin listed the users after a visitor had registered
C15_Witness ==
    /\ response.op = "getUsers"
    /\ response.status = 200
    /\ response.userJson # {}
    /\ \E u \in DOMAIN users \ AuthUsers :
          comparePassword(BobPass, users[u].password)

\* C17: the role and the active flag of a stored user change only in a step
\* of the admin-only user update answered 200 to a requester who is an admin,
\* and only on the user it names; whatever else users do (register, log in,
\* edit their profile, change their password, read) leaves both alone, and a
\* registration stores the role "user" whatever role its body asks for
C17_RoleByAdminOnly ==
    [][ /\ \A u \in DOMAIN users \cap DOMAIN users' :
              (users'[u].role # users[u].role \/ users'[u].isActive # users[u].isActive)
                 => /\ Answered("updateUser")
                    /\ response'.status = 200
                    /\ response'.user \in DOMAIN users
                    /\ users[response'.user].role = "admin"
                    /\ response'.target = UserOid(u)
        /\ \A u \in DOMAIN users' \ DOMAIN users :
              /\ Answered("register")
              /\ users'[u].role = "user"
              /\ users'[u].isActive ]_vars

\* the visitor who registered asking for the admin role was refused the
\* admin-only update
C17_Witness ==
    /\ response.op = "updateUser"
    /\ response.status = 403
    /\ response.user \in DOMAIN users \ AuthUsers
    /\ users[response.user].role = "user"
    /\ users[response.user].username = BobName

(***************************************************************************)
(* Specification of status and listing: alice writes posts; she and the    *)
(* admin move them between the statuses; everyone lists the posts          *)
(***************************************************************************)
StatusCreateBodies ==
    { Body(Some(t), Some(ContentOk), NoStr, st) :
        t \in {TitleA, TitleB}, st \in {NoStatus, Some("archived")} }

StatusUpdateBodies == { Body(NoStr, NoStr, NoStr, Some(st)) : st \in Statuses }

\* listings without a status filter and with one
StatusQueries ==
    {DefaultQuery} \cup { [DefaultQuery EXCEPT !.status = Some(st)] : st \in {"draft", "published"} }

NextStatus ==
    \/ \E b \in StatusCreateBodies : RouteCreatePost(Author, b)
    \/ \E h \in PlainHeaders, id \in PostOids, b \in StatusUpdateBodies :
          RouteUpdatePost(h, id, b)
    \/ \E h \in Headers, q \in StatusQueries : RouteGetPosts(h, q)

SpecStatus == InitPosts /\ [][NextStatus]_vars

\* the posts of a listing, as a set
Listed(r) == { r.items[i] : i \in 1..Len(r.items) }

\* C18: a listing without a status filter holds only published posts, and
\* all of them, when the requester is anonymous or not an admin; for an admin
\* it holds the posts of every status
C18_ListDefaultsToPublished ==
    [][ (Answered("getPosts") /\ response'.status = 200 /\ ~response'.query.status.has)
        => IF response'.user # NoUser /\ users[response'.user].role = "admin"
           THEN /\ Listed(response') = DOMAIN posts
                /\ response'.total = Cardinality(DOMAIN posts)
           ELSE /\ Listed(response') = { p \in DOMAIN posts : posts[p].status = "published" }
                /\ response'.total = Cardinality(Listed(response')) ]_vars

\* the author listed the posts while her only post was not published: the
\* listing is empty
C18_Witness ==
    /\ response.op = "getPosts"
    /\ response.status = 200
    /\ ~response.query.status.has
    /\ response.user = AliceId
    /\ response.total = 0
    /\ \E p \in DOMAIN posts : posts[p].author = AliceId /\ posts[p].status # "published"

\* the body of an update that writes the status and nothing else
StatusOnly(body) ==
    /\ body.status.has /\ body.status.val \in Statuses
    /\ ~body.title.has /\ ~body.content.has /\ ~body.category.has

\* C19: a post created without a status starts as draft; the status of every
\* stored post is draft, published or archived; and an update of the status
\* by the author or an admin is answered 200 and writes the status it names,
\* whatever the status of the post was
C19_StatusMachine ==
    [][ /\ \A p \in DOMAIN posts' : posts'[p].status \in Statuses
        /\ \A p \in DOMAIN posts' \ DOMAIN posts :
              /\ Answered("createPost")
              /\ posts'[p].status = IF response'.body.status.has
                                    THEN response'.body.status.val ELSE "draft"
        /\ Answered("updatePost")
              => \A p \in DOMAIN posts :
                    (/\ response'.target = PostOid(p)
                     /\ response'.user # NoUser
                     /\ isOwner(response'.user, p)
                     /\ StatusOnly(response'.body))
                    => /\ response'.status = 200
                       /\ p \in DOMAIN posts'
                       /\ posts'[p].status = response'.body.status.val ]_vars

\* a post that had been published was put back to draft
C19_Witness ==
    /\ response.op = "updatePost"
    /\ response.status = 200
    /\ response.body.status = Some("draft")
    /\ response.post \in DOMAIN posts
    /\ posts[response.post].status = "draft"
    /\ posts[response.post].publishedAt # NoDate

(***************************************************************************)
(* Specification of comments: alice writes a post; users comment on it     *)
(* with contents around the limits, while the clock moves                  *)
(***************************************************************************)
CommentCreateBody == Body(Some(TitleA), Some(ContentOk), NoStr, Some("published"))

\* contents at and around the limits: blank, padded, exactly MaxCommentLen
\* characters, one more, and one more only by its padding
CommentInputs ==
    { NoStr, Some(CommentBlank), Some(<<" ">> \o CommentOk \o <<" ">>),
      Some(Str(MaxCommentLen, "x")), Some(Str(MaxCommentLen + 1, "x")),
      Some(Str(MaxCommentLen - 1, "x") \o <<" ", " ">>) }

NextComment ==
    \/ Tick
    \/ RouteCreatePost(Author, CommentCreateBody)
    \/ \E h \in {NoHeader, Author, Liker}, id \in PostOids, c \in CommentInputs :
          RouteAddComment(h, id, c)

SpecComment == InitPosts /\ [][NextComment]_vars

C20_WitnessTooLong ==
    /\ response.op = "addComment"
    /\ response.status = 400
    /\ response.user # NoUser
    /\ Len(response.body.content.val) = MaxCommentLen + 1

(***************************************************************************)
(* Pagination of the listing (SpecPages)                                   *)
(***************************************************************************)
\* two published posts of one author, written one clock tick apart
PagedPost(title, at) ==
    LET made == NewPost(AliceId, title, ContentOk, NoCategory, "published")
        saved == preSave(made, {"title", "content", "author", "category", "status"})
    IN  [saved EXCEPT !.createdAt = at, !.publishedAt = at]

PagedPosts == [p \in {1, 2} |-> IF p = 1 THEN PagedPost(TitleA, 0) ELSE PagedPost(TitleB, 1)]

InitPages ==
    /\ users = SeedUsers
    /\ userSeq = BobId
    /\ tokens = SeedTokens
    /\ now = 1
    /\ categories = {1}
    /\ client = ClientOf(NoItems)
    /\ posts = PagedPosts
    /\ postSeq = 2
    /\ pending = <<>>
    /\ response = StartResponse

PageQueries ==
    { [DefaultQuery EXCEPT !.page = pg, !.limit = lm, !.sortBy = sb, !.sortOrder = so] :
        pg \in 1..3, lm \in {1, 2, 10}, sb \in {"createdAt", "views"}, so \in {"asc", "desc"} }

NextPages ==
    \/ \E h \in {NoHeader, Author}, q \in PageQueries : RouteGetPosts(h, q)
    \/ \E h \in {NoHeader}, id \in {PostOid(1), PostOid(2)} : RouteGetPost(h, id)

SpecPages == InitPages /\ [][NextPages]_vars

Smaller(a, b) == IF a < b THEN a ELSE b

\* the posts the query of answer r selects, whatever the page
Selected(r) == { p \in DOMAIN posts : matchesQuery(r.user, r.query, p) }

\* the answer r holds the slice of its page of some sorted order of the
\* selected posts, with the counters of the pagination block
pageOf(r) ==
    LET N == Cardinality(Selected(r))
        first == (r.query.page - 1) * r.query.limit + 1
        last == Smaller(r.query.page * r.query.limit, N)
    IN  /\ Listed(r) \subseteq Selected(r)
        /\ Len(r.items) = IF last >= first THEN last - first + 1 ELSE 0
        /\ Cardinality(Listed(r)) = Len(r.items)
        /\ \A i, j \in 1..Len(r.items) :
              i < j => LET ki == sortKey(r.items[i], r.query.sortBy)
                           kj == sortKey(r.items[j], r.query.sortBy)
                       IN  IF r.query.sortOrder = "desc" THEN ki >= kj ELSE ki <= kj
        /\ r.total = N
        /\ r.totalPages * r.query.limit >= N
        /\ (r.totalPages - 1) * r.query.limit < N \/ (N = 0 /\ r.totalPages = 0)
        /\ r.hasNextPage <=> r.query.page < r.totalPages
        /\ r.hasPrevPage <=> r.query.page > 1

\* two answers to the same listing, asked for different pages
otherPage(r, s) ==
    /\ r.op = "getPosts" /\ r.status = 200 /\ r.ran
    /\ s.op = "getPosts" /\ s.status = 200 /\ s.ran
    /\ r.user = s.user
    /\ r.query.page # s.query.page
    /\ [r.query EXCEPT !.page = 1] = [s.query EXCEPT !.page = 1]

\* C21: every answered listing holds the slice of its page with the counters
\* totalPages = ceil(N / limit), hasNextPage iff page < totalPages and
\* hasPrevPage iff page > 1, and two pages of one listing, asked one after
\* the other over an unchanged store, share no post.
C21_Pagination ==
    [][ (Answered("getPosts") /\ response'.status = 200 /\ response'.ran)
          => /\ pageOf(response')
             /\ otherPage(response, response')
                   => Listed(response) \cap Listed(response') = {} ]_vars

\* the part of C21 that every single answer meets
C21_PageSlice ==
    [][ (Answered("getPosts") /\ response'.status = 200 /\ response'.ran)
          => pageOf(response') ]_vars

\* page 2 with limit 1 of a two-post listing answers one post and no next page
C21_Witness ==
    /\ response.op = "getPosts" /\ response.status = 200 /\ response.ran
    /\ response.query.page = 2 /\ response.query.limit = 1
    /\ response.total = 2 /\ Len(response.items) = 1
    /\ ~response.hasNextPage /\ response.hasPrevPage

(***************************************************************************)
(* Ownership of posts (SpecOwner)                                          *)
(***************************************************************************)
\* the body names another account as the author
ByAuthor(b, u) == [b EXCEPT !.author = Some(UserOid(u))]

OwnerCreateBodies ==
    { ByAuthor(Body(Some(TitleA), Some(ContentOk), NoStr, Some("published")), u) :
        u \in {AdminId, BobId} }

OwnerUpdateBodies ==
    { ByAuthor(Body(Some(TitleB), NoStr, NoStr, NoStatus), BobId),
      ByAuthor(Body(NoStr, NoStr, NoStr, Some("archived")), AdminId) }

NextOwner ==
    \/ \E h \in {Author, Liker}, b \in OwnerCreateBodies : RouteCreatePost(h, b)
    \/ \E h \in PlainHeaders, id \in PostOids, b \in OwnerUpdateBodies :
          RouteUpdatePost(h, id, b)
    \/ \E h \in {NoHeader, Liker}, id \in PostOids : RouteGetPost(h, id)
    \/ \E h \in {Liker}, id \in PostOids : RouteAddComment(h, id, Some(CommentOk))

SpecOwner == InitPosts /\ [][NextOwner]_vars

\* C22: a post enters the store only through an answered createPost, its
\* author is then the account whose token the request carried, whatever
\* author the body names, and no step changes the author of a stored post.
C22_AuthorFixed ==
    [][ /\ \A p \in DOMAIN posts \cap DOMAIN posts' :
              posts'[p].author = posts[p].author
        /\ \A p \in DOMAIN posts' \ DOMAIN posts :
              /\ response'.op = "createPost" /\ response'.status = 201
              /\ posts'[p].author \in DOMAIN users
              /\ response'.hdr = Header("Bearer", TokenOf(posts'[p].author))
              /\ response'.user = posts'[p].author ]_vars

\* the admin updated alice's post with a body that names bob as the author
C22_Witness ==
    /\ response.op = "updatePost" /\ response.status = 200
    /\ response.user = AdminId
    /\ response.body.author = Some(UserOid(BobId))
    /\ response.post \in DOMAIN posts
    /\ posts[response.post].author = AliceId

\* bob created a post with a body that names the admin as the author
C22_WitnessCreate ==
    /\ response.op = "createPost" /\ response.status = 201
    /\ response.user = BobId
    /\ response.body.author = Some(UserOid(AdminId))
    /\ posts[response.post].author = BobId

(***************************************************************************)
(* Lookup of a post by id and by slug (SpecSlug)                           *)
(***************************************************************************)
\* C23: a view whose identifier is the id or the slug of a published post
\* answers 200 with that post.
C23_ViewByIdOrSlug ==
    [][Answered("getPost")
         => \A p \in DOMAIN posts :
               (/\ posts[p].status = "published"
                /\ response'.target \in {PostOid(p), posts[p].slug})
               => response'.status = 200 /\ response'.post = p]_vars

\* the same, for the posts whose slug is not made of 24 hexadecimal digits
C23_ViewBySlugNotHex ==
    [][Answered("getPost")
         => \A p \in DOMAIN posts :
               (/\ posts[p].status = "published"
                /\ ~isValidObjectId(posts[p].slug)
                /\ response'.target \in {PostOid(p), posts[p].slug})
               => response'.status = 200 /\ response'.post = p]_vars

\* a published post was answered to a request that named its slug
C23_Witness ==
    /\ response.op = "getPost" /\ response.status = 200
    /\ response.post \in DOMAIN posts
    /\ posts[response.post].status = "published"
    /\ response.target = posts[response.post].slug

(***************************************************************************)
(* Specification of the browser client: the page is loaded with or without *)
(* stored items; login, register, logout, updateUser and clearError are    *)
(* called in any order and their calls answer in any order.  The call of   *)
(* logout answers or throws: its continuation is weakly fair.              *)
(***************************************************************************)
StoredItems == {NoItems, [token |-> "t1", user |-> "alice"]}

InitClient ==
    /\ users = SeedUsers
    /\ userSeq = BobId
    /\ tokens = SeedTokens
    /\ now = 0
    /\ categories = {1}
    /\ posts = EmptyPosts
    /\ postSeq = 0
    /\ pending = <<>>
    /\ response = StartResponse
    /\ client \in { ClientOf(st) : st \in StoredItems }

NextClient ==
    \/ LoadUserBegin
    \/ \E ok \in BOOLEAN, u \in ClientUsers : LoadUserEnd(ok, u)
    \/ LoginBegin
    \/ \E ok \in BOOLEAN, u \in ClientUsers, t \in ClientTokens, m \in ClientErrors :
          LoginEnd(ok, u, t, m)
    \/ RegisterCallBegin
    \/ \E ok \in BOOLEAN, u \in ClientUsers, t \in ClientTokens, m \in ClientErrors :
          RegisterCallEnd(ok, u, t, m)
    \/ LogoutBegin
    \/ \E ok \in BOOLEAN : LogoutEnd(ok)
    \/ \E u \in ClientUsers : ClientUpdateUser(u)
    \/ clearError

SpecClient ==
    InitClient /\ [][NextClient]_vars /\ WF_vars(\E ok \in BOOLEAN : LogoutEnd(ok))

LoggedOut ==
    /\ client.state = [user |-> Null, token |-> Null, loading |-> FALSE,
                       error |-> Null, isAuthenticated |-> FALSE]
    /\ client.storage = NoItems

\* a step in which a call of logout comes to its end
LogoutDone ==
    \/ client.logout = "calling" /\ client'.logout = "idle"
    \/ client.logout = "idle" /\ client'.logout = "idle" /\ client'.last = "LOGOUT"
       /\ client' # client

\* C24: every call of logout comes to its end, whether its API call answers
\* or throws, and the step that ends it leaves the logged-out state: no
\* user, no token, not authenticated, not loading, no error, and neither
\* item in localStorage.
C24_LogoutEnds ==
    /\ [][LogoutDone => LoggedOut']_vars
    /\ (client.logout = "calling") ~> (client.logout = "idle" /\ LoggedOut)

\* a logout has ended while a login was still waiting
\* for its answer
C24_Witness ==
    /\ client.last = "LOGOUT" /\ client.logout = "idle" /\ LoggedOut
    /\ client.login

(***************************************************************************)
(* Interleaved toggleLike requests of one user (SpecLike)                  *)
(***************************************************************************)
entriesOf(doc, u) == Cardinality({ i \in 1..Len(doc.likes) : doc.likes[i].user = u })

\* the step ends the i-th request in flight, a toggleLike that read the post
\* without a like of its user, while the stored post has since got one
LateLike(i) ==
    /\ i \in 1..Len(pending)
    /\ pending[i].op = "toggleLike"
    /\ pending[i].post \in DOMAIN posts
    /\ ~isLikedByUser(pending[i].doc, pending[i].user)
    /\ isLikedByUser(posts[pending[i].post], pending[i].user)
    /\ pending' = RemoveAt(pending, i)
    /\ response'.op = "toggleLike"
    /\ response'.user = pending[i].user
    /\ response'.post = pending[i].post

\* C25: a toggleLike that read the post before another toggleLike of the
\* same user saved its like answers 200 with isLiked = true, as the other
\* did, and adds a second entry of the user to the likes.
C25_DoubleLike ==
    [][\A i \in 1..Len(pending) :
          LateLike(i)
          => /\ response'.status = 200
             /\ response'.isLiked
             /\ entriesOf(posts'[pending[i].post], pending[i].user)
                   = entriesOf(posts[pending[i].post], pending[i].user) + 1
             /\ (response.op = "toggleLike" /\ response.status = 200
                 /\ response.user = pending[i].user /\ response.post = pending[i].post)
                   => response.isLiked = response'.isLiked]_vars

\* both requests were answered 200 with isLiked = true and the likes hold two
\* entries of the user
C25_Witness ==
    /\ response.op = "toggleLike" /\ response.status = 200 /\ response.isLiked
    /\ response.post \in DOMAIN posts
    /\ entriesOf(posts[response.post], response.user) = 2
    /\ response.likeCount = 1

(***************************************************************************)
(* The view counter under interleaved views (SpecView)                     *)
(***************************************************************************)
\* C26: no step lowers the stored view counter of a post, and every view
\* answered 200 adds one to it, so that with no view in flight the counter
\* is its first value plus the number of views answered 200.
C26_ViewsAddUp ==
    [][/\ \A p \in DOMAIN posts \cap DOMAIN posts' : posts'[p].views >= posts[p].views
       /\ (Viewed /\ response'.status = 200 /\ response'.post \in DOMAIN posts)
             => posts'[response'.post].views > posts[response'.post].views]_vars

\* the part of C26 that holds while every view in flight has read the
\* counter as it is stored: the counter is not lowered
C26_NotLoweredAlone ==
    [][(\A i \in 1..Len(pending) : pending[i].doc.views = posts[pending[i].post].views)
          => \A p \in DOMAIN posts \cap DOMAIN posts' :
                posts'[p].views >= posts[p].views]_vars

(***************************************************************************)
(* Uniqueness of slugs (SpecUnique): two posts are stored, one of them     *)
(* with the empty slug of a title of punctuation only; alice writes more   *)
(* posts and changes titles                                                *)
(***************************************************************************)
UniquePosts ==
    [p \in {1, 2} |-> IF p = 1 THEN PagedPost(TitleB, 0) ELSE PagedPost(TitlePunct, 1)]

InitUnique ==
    /\ users = SeedUsers
    /\ userSeq = BobId
    /\ tokens = SeedTokens
    /\ now = 1
    /\ categories = {1}
    /\ client = ClientOf(NoItems)
    /\ posts = UniquePosts
    /\ postSeq = 2
    /\ pending = <<>>
    /\ response = StartResponse

\* "Other" with other letter cases and blanks around it
TitleBLoud == <<" ", "O", "T", "H", "E", "R", "!">>

UniqueTitles == {TitleA, TitleB, TitleBLoud, TitlePunct}

NextUnique ==
    \/ \E t \in UniqueTitles :
          RouteCreatePost(Author, Body(Some(t), Some(ContentOk), NoStr, NoStatus))
    \/ \E id \in {PostOid(1), PostOid(2)}, t \in UniqueTitles :
          RouteUpdatePost(Author, id, Body(Some(t), NoStr, NoStr, NoStatus))
    \/ \E id \in {PostOid(1), PostOid(2)} : RouteDeletePost(Author, id)

SpecUnique == InitUnique /\ [][NextUnique]_vars

SlugsUnique(store) ==
    \A p, q \in DOMAIN store : store[p].slug = store[q].slug => p = q

\* C27: no two stored posts have the same slug; a createPost whose title
\* derives a slug that a stored post holds is answered 400 and stores
\* nothing; and a slug is only ever the slug derived from the title, never
\* that slug with something added to it.
C27_SlugsUnique ==
    [][/\ SlugsUnique(posts')
       /\ (/\ Answered("createPost")
           /\ response'.user # NoUser
           /\ createPostValidation(response'.body)
           /\ \E p \in DOMAIN posts :
                 posts[p].slug = slugify(trim(response'.body.title.val)))
             => response'.status = 400 /\ posts' = posts
       /\ \A p \in DOMAIN posts' :
             \/ p \in DOMAIN posts /\ posts'[p].slug = posts[p].slug
             \/ posts'[p].slug = slugify(posts'[p].title)]_vars

\* a create whose title derives the slug of a stored post was refused
C27_Witness ==
    /\ response.op = "createPost" /\ response.status = 400
    /\ response.user = AliceId
    /\ createPostValidation(response.body)
    /\ \E p \in DOMAIN posts : posts[p].slug = slugify(trim(response.body.title.val))
    /\ Cardinality(DOMAIN posts) = 2

(***************************************************************************)
(* Deactivated accounts (SpecAuth)                                         *)
(***************************************************************************)
\* the header carries a token that was issued to a stored account which is
\* deactivated now
Revoked(h) ==
    /\ Kind(h) = "issued"
    /\ h.token.payload.id \in DOMAIN users
    /\ ~users[h.token.payload.id].isActive

\* the credentials are those of a stored account which is deactivated now
RevokedLogin(cred) ==
    \E u \in DOMAIN users :
       /\ users[u].email = normalizeEmail(cred.email)
       /\ comparePassword(cred.password, users[u].password)
       /\ ~users[u].isActive

\* C28: while an account is deactivated, every request behind authenticate
\* that carries a token issued to it is answered 401 and changes nothing,
\* optionalAuth passes such a request on with no identity, and a login with
\* the account's own credentials is answered 401 with no token; an account
\* is deactivated only by an update of an admin, and the admin's update
\* that activates it again ends this.
C28_Deactivated ==
    [][/\ \A op \in ProtectedOps :
             (Answered(op) /\ Revoked(response'.hdr))
             => /\ response'.status = 401
                /\ ~response'.ran
                /\ response'.user = NoUser
                /\ users' = users
       /\ (Answered("getPosts") /\ Revoked(response'.hdr))
             => response'.user = NoUser /\ response'.ran
       /\ (Answered("login") /\ RevokedLogin(response'.cred))
             => response'.status = 401 /\ ~response'.token.has /\ tokens' = tokens
       /\ \A u \in DOMAIN users \cap DOMAIN users' :
             users'[u].isActive # users[u].isActive
             => /\ response'.op = "updateUser" /\ response'.status = 200
                /\ response'.user \in DOMAIN users
                /\ users[response'.user].role = "admin"
                /\ response'.target = UserOid(u)]_vars

\* a listing that carried the token of the deactivated account was answered
\* without an identity
C28_Witness ==
    /\ response.op = "getPosts" /\ response.status = 200
    /\ Revoked(response.hdr)
    /\ now < response.hdr.token.payload.exp
    /\ response.user = NoUser

(***************************************************************************)
(* Published posts carry a publication date (SpecPublish)                  *)
(***************************************************************************)
\* C29: every stored post whose status is published has a publishedAt, and
\* it is a time that has been reached.
C29_PublishedHasDate ==
    \A p \in DOMAIN posts :
       posts[p].status = "published"
       => posts[p].publishedAt # NoDate /\ posts[p].publishedAt <= now

\* a post written as a draft was published by a later update
C29_Witness ==
    /\ response.op = "updatePost" /\ response.status = 200
    /\ response.post \in DOMAIN posts
    /\ posts[response.post].status = "published"
    /\ posts[response.post].publishedAt > posts[response.post].createdAt

(***************************************************************************)
(* Likes and comments on posts that are not published (SpecHidden): alice  *)
(* writes a post and moves it between the statuses; bob likes and comments *)
(***************************************************************************)
HiddenCreateBodies ==
    { Body(Some(TitleA), Some(ContentOk), NoStr, st) : st \in {NoStatus, Some("published")} }

HiddenUpdateBodies ==
    { Body(NoStr, NoStr, NoStr, Some(st)) : st \in {"published", "archived"} }

NextHidden ==
    \/ \E b \in HiddenCreateBodies : RouteCreatePost(Author, b)
    \/ \E id \in PostOids, b \in HiddenUpdateBodies : RouteUpdatePost(Author, id, b)
    \/ \E id \in PostOids : ToggleLikeBegin(Liker, id)
    \/ \E i \in 1..Len(pending) : ToggleLikeEnd(i)
    \/ \E id \in PostOids : RouteAddComment(Liker, id, Some(CommentOk))

SpecHidden == InitPosts /\ [][NextHidden]_vars

\* a view of post p by requester u (NoUser: nobody) is answered 404
Hidden(u, p) == getPost(u, PostOid(p)).resp.status = 404

\* the step ends the i-th request in flight, a toggleLike whose post is
\* stored as it was read
FreshLike(i) ==
    /\ pending[i].op = "toggleLike"
    /\ pending[i].post \in DOMAIN posts
    /\ pending[i].doc = posts[pending[i].post]
    /\ pending' = RemoveAt(pending, i)
    /\ response'.op = "toggleLike"
    /\ response'.user = pending[i].user
    /\ response'.post = pending[i].post

\* C30: a comment with an acceptable content and a like, sent by an
\* authenticated requester for the id of a stored post, are answered 201 and
\* 200 and change the post, whatever its status and whether or not a view by
\* that requester would be answered 404; neither is answered 404 for the id
\* of a stored post.
C30_NoVisibilityRule ==
    [][/\ \A p \in DOMAIN posts :
             (/\ Answered("addComment") /\ pending' = pending
              /\ response'.target = PostOid(p) /\ response'.user # NoUser
              /\ addCommentValidation(response'.body.content)
              /\ Len(trim(response'.body.content.val)) > 0)
             => /\ response'.status = 201
                /\ Len(posts'[p].comments) = Len(posts[p].comments) + 1
       /\ \A i \in 1..Len(pending) :
             FreshLike(i)
             => /\ response'.status = 200
                /\ Len(posts'[pending[i].post].likes) # Len(posts[pending[i].post].likes)
       /\ \A p \in DOMAIN posts :
             (response' # response /\ response'.op \in {"toggleLike", "addComment"}
              /\ response'.target = PostOid(p))
             => response'.status # 404]_vars

\* bob's comment on a post that a view by bob does not find was stored
C30_Witness ==
    /\ response.op = "addComment" /\ response.status = 201
    /\ response.user = BobId
    /\ response.post \in DOMAIN posts
    /\ posts[response.post].status # "published"
    /\ Hidden(BobId, response.post)
    /\ Len(posts[response.post].comments) > 0

\* bob's like of a post that a view by bob does not find was stored
C30_WitnessLike ==
    /\ response.op = "toggleLike" /\ response.status = 200
    /\ response.user = BobId
    /\ response.post \in DOMAIN posts
    /\ Hidden(BobId, response.post)
    /\ isLikedByUser(posts[response.post], BobId)

====
